---- MODULE Spec2Model ----
(***************************************************************************)
(* A model of the identity module (users, roles, permissions,              *)
(* authentication and authorization) of node-js-api-rest-template.         *)
(*                                                                         *)
(* Strings are sequences of one-character strings, so that toLowerCase,    *)
(* toUpperCase and trim are computed and not assumed.  Identifiers (UUIDs) *)
(* are opaque strings.  Every await of a use case is one step of the       *)
(* execution that runs it, so that executions interleave where the         *)
(* program's do.                                                           *)
(***************************************************************************)
EXTENDS Integers, Sequences, FiniteSets, TLC

VARIABLES
    users,          \* the user table: the ids of its rows -> row
    roles,          \* the role table, each row with the ids of its permissions
    permissions,    \* the permission table
    proc,           \* the executions in flight: slot -> execution record
    pure,           \* the entity under test of the entity-level specifications
    failure         \* slot -> the first error a repository call of the execution
                    \* in the slot returned to it, NoError while none did

vars == <<users, roles, permissions, proc, pure, failure>>

-----------------------------------------------------------------------------
(* Bounds of the model *)

\* longest raw input string drawn for Permission.grants / Permission.create
MaxLen == 2

-----------------------------------------------------------------------------
(* Strings *)

LowerLetters == <<"a","b","c","d","e","f","g","h","i","j","k","l","m",
                  "n","o","p","q","r","s","t","u","v","w","x","y","z">>
UpperLetters == <<"A","B","C","D","E","F","G","H","I","J","K","L","M",
                  "N","O","P","Q","R","S","T","U","V","W","X","Y","Z">>
Digits == {"0","1","2","3","4","5","6","7","8","9"}

Range(f) == {f[i] : i \in DOMAIN f}

IsLower(c) == c \in Range(LowerLetters)
IsUpper(c) == c \in Range(UpperLetters)
IsLetter(c) == IsLower(c) \/ IsUpper(c)
IsWhitespace(c) == c = " "

LowerChar(c) ==
    IF IsUpper(c)
    THEN LowerLetters[CHOOSE i \in DOMAIN UpperLetters : UpperLetters[i] = c]
    ELSE c

UpperChar(c) ==
    IF IsLower(c)
    THEN UpperLetters[CHOOSE i \in DOMAIN LowerLetters : LowerLetters[i] = c]
    ELSE c

\* String.prototype.toLowerCase / toUpperCase
ToLowerCase(s) == [i \in 1..Len(s) |-> LowerChar(s[i])]
ToUpperCase(s) == [i \in 1..Len(s) |-> UpperChar(s[i])]

RECURSIVE TrimStart(_)
TrimStart(s) ==
    IF s # <<>> /\ IsWhitespace(Head(s)) THEN TrimStart(Tail(s)) ELSE s

RECURSIVE TrimEnd(_)
TrimEnd(s) ==
    IF s # <<>> /\ IsWhitespace(s[Len(s)])
    THEN TrimEnd(SubSeq(s, 1, Len(s) - 1))
    ELSE s

\* String.prototype.trim
Trim(s) == TrimEnd(TrimStart(s))

\* every string over alphabet A of length at most n
StringsOver(A, n) == UNION {[1..k -> A] : k \in 0..n}

\* a value of a string-typed field that was not given
Undefined == <<"undefined">>

-----------------------------------------------------------------------------
(* Errors: one record shape for every error class.  A field an error class *)
(* or a call site does not set holds None (an id, a tag) or Undefined (a   *)
(* string).                                                                *)

None == "none"

Error(type, message) ==
    [type |-> type, message |-> message,
     field |-> None,            \* ValidationError.field / ConflictError.field
     entity |-> None,           \* NotFoundError / ConflictError entity type
     value |-> Undefined,       \* ConflictError.value / NotFoundError identifier
     aggregateType |-> None, aggregateId |-> None, operation |-> None,
     reason |-> None,           \* context.metadata.reason
     metaValue |-> Undefined,   \* context.metadata.email / context.metadata.name
     cause |-> None,            \* context.metadata.cause: the driver's error code
     missingIds |-> <<>>]       \* context.metadata.missingIds

ValidationError(field, reason) ==
    [Error("ValidationError", reason) EXCEPT !.field = field]

-----------------------------------------------------------------------------
(* Permission entity *)

MaxTokenLen == 50
MaxDescriptionLen == 255

\* /^[a-z0-9_-]+$/i
IsTokenChar(c) == IsLetter(c) \/ c \in Digits \/ c = "_" \/ c = "-"
MatchesTokenRegex(s) == s # <<>> /\ \A i \in 1..Len(s) : IsTokenChar(s[i])

Permission_validateResource(resource) ==
    IF resource = <<>> \/ Len(Trim(resource)) = 0
        THEN [ok |-> FALSE, error |-> ValidationError("resource", "Resource is required")]
    ELSE IF Len(Trim(resource)) > MaxTokenLen
        THEN [ok |-> FALSE,
              error |-> ValidationError("resource",
                                        "Resource must not exceed 50 characters")]
    ELSE IF ~MatchesTokenRegex(Trim(resource))
        THEN [ok |-> FALSE,
              error |-> ValidationError("resource",
                  "Resource must contain only alphanumeric characters, underscores, and hyphens")]
    ELSE [ok |-> TRUE]

Permission_validateAction(action) ==
    IF action = <<>> \/ Len(Trim(action)) = 0
        THEN [ok |-> FALSE, error |-> ValidationError("action", "Action is required")]
    ELSE IF Len(Trim(action)) > MaxTokenLen
        THEN [ok |-> FALSE,
              error |-> ValidationError("action", "Action must not exceed 50 characters")]
    ELSE IF ~MatchesTokenRegex(Trim(action))
        THEN [ok |-> FALSE,
              error |-> ValidationError("action",
                  "Action must contain only alphanumeric characters, underscores, and hyphens")]
    ELSE [ok |-> TRUE]

Permission_validateDescription(description) ==
    IF description = <<>> \/ Len(Trim(description)) = 0
        THEN [ok |-> FALSE,
              error |-> ValidationError("description", "Description is required")]
    ELSE IF Len(Trim(description)) > MaxDescriptionLen
        THEN [ok |-> FALSE,
              error |-> ValidationError("description",
                                        "Description must not exceed 255 characters")]
    ELSE [ok |-> TRUE]

\* a variant that stores the tokens as given
Permission_create_raw(id, props) ==
    IF ~Permission_validateResource(props.resource).ok
        THEN Permission_validateResource(props.resource)
    ELSE IF ~Permission_validateAction(props.action).ok
        THEN Permission_validateAction(props.action)
    ELSE IF ~Permission_validateDescription(props.description).ok
        THEN Permission_validateDescription(props.description)
    ELSE [ok |-> TRUE,
          value |-> [id |-> id,
                     resource |-> Trim(props.resource),
                     action |-> Trim(props.action),
                     description |-> Trim(props.description)]]

\* Permission.create: validates, then stores the lowercased, trimmed tokens
Permission_create(id, props) ==
    IF ~Permission_validateResource(props.resource).ok
        THEN Permission_validateResource(props.resource)
    ELSE IF ~Permission_validateAction(props.action).ok
        THEN Permission_validateAction(props.action)
    ELSE IF ~Permission_validateDescription(props.description).ok
        THEN Permission_validateDescription(props.description)
    ELSE [ok |-> TRUE,
          value |-> [id |-> id,
                     resource |-> Trim(ToLowerCase(props.resource)),
                     action |-> Trim(ToLowerCase(props.action)),
                     description |-> Trim(props.description)]]

\* Permission.reconstitute: the props as they are, no validation
Permission_reconstitute(props) ==
    [id |-> props.id, resource |-> props.resource, action |-> props.action,
     description |-> props.description]

Permission_matches(p, resource, action) ==
    /\ p.resource = Trim(ToLowerCase(resource))
    /\ p.action = Trim(ToLowerCase(action))

\* a variant that also lets a resource pattern ending in * grant its prefix
Permission_grants_prefix(p, resource, action) ==
    LET normalizedResource == Trim(ToLowerCase(resource))
        normalizedAction == Trim(ToLowerCase(action))
        n == Len(p.resource)
    IN  \/ Permission_matches(p, normalizedResource, normalizedAction)
        \/ p.action = <<"*">> /\ p.resource = normalizedResource
        \/ p.resource = <<"*">> /\ p.action = normalizedAction
        \/ p.resource = <<"*">> /\ p.action = <<"*">>
        \/ /\ n > 1 /\ p.resource[n] = "*"
           /\ Len(normalizedResource) >= n - 1
           /\ SubSeq(normalizedResource, 1, n - 1) = SubSeq(p.resource, 1, n - 1)
           /\ p.action = normalizedAction

Permission_grants(p, resource, action) ==
    LET normalizedResource == Trim(ToLowerCase(resource))
        normalizedAction == Trim(ToLowerCase(action))
    IN  IF Permission_matches(p, normalizedResource, normalizedAction) THEN TRUE
        ELSE IF p.action = <<"*">> /\ p.resource = normalizedResource THEN TRUE
        ELSE IF p.resource = <<"*">> /\ p.action = normalizedAction THEN TRUE
        ELSE IF p.resource = <<"*">> /\ p.action = <<"*">> THEN TRUE
        ELSE FALSE

-----------------------------------------------------------------------------
(* Results *)

Ok(v) == [ok |-> TRUE, value |-> v]
Fail(e) == [ok |-> FALSE, error |-> e]
NoError == Error(None, None)

DatabaseError(message, operation) ==
    [Error("DatabaseError", message) EXCEPT !.operation = operation]

\* new NotFoundError(entityType, identifier, context)
NotFoundError(entity, identifier, context) ==
    [context EXCEPT !.type = "NotFoundError", !.entity = entity, !.value = identifier]

\* new ConflictError(entityType, field, value, message, context)
ConflictError(entity, field, value, message, context) ==
    [context EXCEPT !.type = "ConflictError", !.entity = entity, !.field = field,
                    !.value = value, !.message = message]

\* new ForbiddenError(operation, entityType, reason, context)
ForbiddenError(operation, entity, reason, context) ==
    [context EXCEPT !.type = "ForbiddenError", !.entity = entity,
                    !.message = reason, !.operation = operation]

\* new UnauthorizedError(message, context)
UnauthorizedError(message, context) ==
    [context EXCEPT !.type = "UnauthorizedError", !.message = message]

\* an error context: the fields of Error that a call site sets
Context == Error(None, None)

\* an opaque id printed into a string-typed field
IdString(id) == <<id>>

-----------------------------------------------------------------------------
(* Identifiers.  An id stands for one UUID v4 string; the strings that are *)
(* not UUIDs are BadIds.                                                   *)

UserIds == {"u-admin", "u-bob"}
GhostUserId == "u-ghost"            \* a well-formed id no user has
RoleIds == {"r-admin", "r-user", "r-guest", "r-ops"}
PermissionIds == {"p-all", "p-users-read", "p-roles-read"}
PermissionIdOrder == <<"p-all", "p-users-read", "p-roles-read">>
BadIds == {"not-a-uuid"}

\* /^[0-9a-f]{8}-[0-9a-f]{4}-4[0-9a-f]{3}-[89ab][0-9a-f]{3}-[0-9a-f]{12}$/i
IsUuidV4(id) == id \notin BadIds /\ id # ""

-----------------------------------------------------------------------------
(* The tables.  A table is a function from the ids of its rows.            *)

S_star == <<"*">>
S_users == <<"u", "s", "e", "r", "s">>
S_roles == <<"r", "o", "l", "e", "s">>
S_read == <<"r", "e", "a", "d">>
S_delete == <<"d", "e", "l", "e", "t", "e">>
S_ADMIN == <<"A", "D", "M", "I", "N">>
S_USER == <<"U", "S", "E", "R">>
S_GUEST == <<"G", "U", "E", "S", "T">>
S_SUPPORT == <<"S", "U", "P", "P", "O", "R", "T">>
S_desc == <<"d">>

E_admin == <<"a", "@", "x", ".", "y">>
E_bob == <<"b", "@", "x", ".", "y">>

PW_admin == <<"A", "d", "m", "i", "n", "#", "1", "2">>
PW_bob == <<"B", "o", "b", "b", "y", "#", "1", "2">>

\* IPasswordHashService.hash: the salt is left out, the hash stands for its plaintext
PasswordHashService_hash(plain) == <<"$">> \o plain
\* IPasswordHashService.compare
PasswordHashService_compare(plain, hashed) == hashed = <<"$">> \o plain

SeedPermissions ==
    [id \in PermissionIds |->
        [id |-> id,
         resource |-> CASE id = "p-all" -> S_star
                        [] id = "p-users-read" -> S_users
                        [] OTHER -> S_roles,
         action |-> CASE id = "p-all" -> S_star
                      [] OTHER -> S_read,
         description |-> S_desc]]

\* the seeded system roles, and one custom role created since
SeedRoles ==
    [id \in RoleIds |->
        [id |-> id,
         name |-> CASE id = "r-admin" -> S_ADMIN
                    [] id = "r-user" -> S_USER
                    [] id = "r-guest" -> S_GUEST
                    [] OTHER -> S_SUPPORT,
         description |-> S_desc,
         isSystem |-> id # "r-ops",
         permissionIds |-> CASE id = "r-admin" -> <<"p-all">>
                             [] id = "r-user" -> <<"p-users-read", "p-roles-read">>
                             [] id = "r-guest" -> <<>>
                             [] OTHER -> <<"p-roles-read", "p-users-read">>]]

\* the seeded administrator, and one user created since with the custom role
SeedUsers ==
    [id \in UserIds |->
        [id |-> id,
         email |-> IF id = "u-admin" THEN E_admin ELSE E_bob,
         password |-> PasswordHashService_hash(IF id = "u-admin" THEN PW_admin ELSE PW_bob),
         firstName |-> <<"A">>,
         lastName |-> <<"B">>,
         isActive |-> TRUE,
         roleId |-> IF id = "u-admin" THEN "r-admin" ELSE "r-ops"]]

Without(table, id) == [x \in DOMAIN table \ {id} |-> table[x]]

-----------------------------------------------------------------------------
(* Role entity.  The class has the fields id, name, description,           *)
(* permissionIds, createdAt and updatedAt, and no other.                   *)

MaxRoleNameLen == 50
MaxRoleDescriptionLen == 255

\* /^[A-Z0-9_]+$/
MatchesRoleNameRegex(s) ==
    /\ Len(s) > 0
    /\ \A i \in DOMAIN s : IsUpper(s[i]) \/ s[i] \in Digits \/ s[i] = "_"

Role_validateName(name) ==
    IF name = Undefined \/ Len(Trim(name)) = 0
        THEN Fail(ValidationError("name", "Role name is required"))
    ELSE IF Len(Trim(name)) > MaxRoleNameLen
        THEN Fail(ValidationError("name", "Role name must not exceed 50 characters"))
    ELSE IF ~MatchesRoleNameRegex(ToUpperCase(Trim(name)))
        THEN Fail(ValidationError("name",
               "Role name must contain only uppercase letters, numbers, and underscores"))
    ELSE Ok(TRUE)

Role_validateDescription(description) ==
    IF description = Undefined \/ Len(Trim(description)) = 0
        THEN Fail(ValidationError("description", "Role description is required"))
    ELSE IF Len(Trim(description)) > MaxRoleDescriptionLen
        THEN Fail(ValidationError("description",
                                  "Role description must not exceed 255 characters"))
    ELSE Ok(TRUE)

Role_validateNoDuplicatePermissions(permissionIds) ==
    IF Cardinality(Range(permissionIds)) # Len(permissionIds)
        THEN Fail(ValidationError("permissionIds", "Role cannot have duplicate permissions"))
    ELSE Ok(TRUE)

\* Role.create; id is the UUID that RoleId.create() draws
Role_create(id, props) ==
    IF ~Role_validateName(props.name).ok THEN Role_validateName(props.name)
    ELSE IF ~Role_validateDescription(props.description).ok
        THEN Role_validateDescription(props.description)
    ELSE IF ~Role_validateNoDuplicatePermissions(props.permissionIds).ok
        THEN Role_validateNoDuplicatePermissions(props.permissionIds)
    ELSE Ok([id |-> id,
             name |-> Trim(ToUpperCase(props.name)),
             description |-> Trim(props.description),
             permissionIds |-> props.permissionIds])

\* Role.reconstitute: the constructor takes id, name, description, permission
\* ids and the two dates; any other prop is dropped
Role_reconstitute(props) ==
    [id |-> props.id, name |-> props.name, description |-> props.description,
     permissionIds |-> props.permissionIds]

\* role.isSystem as a condition: a property the entity does not have reads
\* undefined, which is falsy
Role_isSystem_truthy(role) == "isSystem" \in DOMAIN role /\ role.isSystem

\* Role.getPermissionIds
Role_getPermissionIds(role) == role.permissionIds

Role_changeName(role, newName) ==
    IF ~Role_validateName(newName).ok
        THEN [result |-> Role_validateName(newName), role |-> role]
    ELSE [result |-> Ok(TRUE),
          role |-> [role EXCEPT !.name = Trim(ToUpperCase(newName))]]

Role_changeDescription(role, newDescription) ==
    IF ~Role_validateDescription(newDescription).ok
        THEN [result |-> Role_validateDescription(newDescription), role |-> role]
    ELSE [result |-> Ok(TRUE),
          role |-> [role EXCEPT !.description = Trim(newDescription)]]

\* role.replacePermissions(ids): the class has no such method, the call throws
Role_replacePermissions(role, permissionIds) ==
    [result |-> Fail(Error("TypeError", "role.replacePermissions is not a function")),
     role |-> role]

\* Role.hasPermission
Role_hasPermission(role, permissionId) ==
    \E i \in DOMAIN role.permissionIds : role.permissionIds[i] = permissionId

\* a variant that pushes the id without looking for it
Role_assignPermission_unchecked(role, permissionId, now) ==
    [result |-> Ok(Undefined),
     role |-> [role EXCEPT !.permissionIds = Append(@, permissionId),
                           !.updatedAt = now]]

\* Role.assignPermission; now is what new Date() reads
Role_assignPermission(role, permissionId, now) ==
    IF Role_hasPermission(role, permissionId)
        THEN [result |-> Fail([ValidationError("permissionId",
                                               "Permission already assigned to this role")
                                 EXCEPT !.metaValue = permissionId]),
              role |-> role]
    ELSE [result |-> Ok(Undefined),
          role |-> [role EXCEPT !.permissionIds = Append(@, permissionId),
                                !.updatedAt = now]]

\* Role.removePermission: findIndex, then splice(index, 1)
Role_removePermission(role, permissionId, now) ==
    IF ~\E i \in DOMAIN role.permissionIds : role.permissionIds[i] = permissionId
        THEN [result |-> Fail([ValidationError("permissionId",
                                               "Permission not found in this role")
                                 EXCEPT !.metaValue = permissionId]),
              role |-> role]
    ELSE LET index == CHOOSE i \in DOMAIN role.permissionIds :
                         /\ role.permissionIds[i] = permissionId
                         /\ \A j \in 1..(i - 1) : role.permissionIds[j] # permissionId
         IN  [result |-> Ok(Undefined),
              role |-> [role EXCEPT
                          !.permissionIds = SubSeq(@, 1, index - 1)
                                              \o SubSeq(@, index + 1, Len(@)),
                          !.updatedAt = now]]

\* RoleMapper.toDto
RoleMapper_toDto(role) ==
    [id |-> role.id, name |-> role.name, description |-> role.description,
     isSystem |-> IF "isSystem" \in DOMAIN role
                  THEN (IF role.isSystem THEN "true" ELSE "false")
                  ELSE "undefined",
     permissionIds |-> Role_getPermissionIds(role)]

-----------------------------------------------------------------------------
(* Repositories.  db is the outcome of the storage call: "ok", or "error"  *)
(* when the driver throws.                                                 *)

DbOutcomes == {"ok", "error"}

\* IUserRepository.findById
UserRepository_findById(id, db) ==
    IF db = "error"
        THEN Fail(DatabaseError("Failed to find user by ID", "findById"))
    ELSE IF id \in DOMAIN users
        THEN [ok |-> TRUE, found |-> TRUE, value |-> users[id]]
    ELSE [ok |-> TRUE, found |-> FALSE]

\* RoleRepositoryImpl.mapRole
RoleRepositoryImpl_mapRole(record) ==
    Role_reconstitute([id |-> record.id, name |-> record.name,
                       description |-> record.description,
                       isSystem |-> record.isSystem,
                       permissionIds |-> record.permissionIds])

\* RoleRepositoryImpl.findById
RoleRepositoryImpl_findById(id, db) ==
    IF db = "error"
        THEN Fail(DatabaseError("Failed to find role by ID", "findById"))
    ELSE IF id \in DOMAIN roles
        THEN [ok |-> TRUE, found |-> TRUE, value |-> RoleRepositoryImpl_mapRole(roles[id])]
    ELSE [ok |-> TRUE, found |-> FALSE]

\* the rows of findMany({ where: { id: { in: ids } } }), in table order
PermissionRowsIn(ids) ==
    SelectSeq(PermissionIdOrder,
              LAMBDA id : id \in DOMAIN permissions /\ id \in Range(ids))

\* a variant that reports an id without a row, as ensurePermissionsExist does
PermissionRepositoryImpl_findByIds_strict(ids, db) ==
    IF db = "error"
        THEN Fail(DatabaseError("Failed to find permissions by IDs", "findByIds"))
    ELSE IF \E i \in DOMAIN ids : ids[i] \notin DOMAIN permissions
        THEN Fail(NotFoundError("Permission",
                                SelectSeq(ids, LAMBDA id : id \notin DOMAIN permissions),
                                [Error(None, None) EXCEPT !.aggregateType = "Permission"]))
    ELSE Ok([i \in DOMAIN PermissionRowsIn(ids) |->
                Permission_reconstitute(permissions[PermissionRowsIn(ids)[i]])])

\* PermissionRepositoryImpl.findByIds
PermissionRepositoryImpl_findByIds(ids, db) ==
    IF db = "error"
        THEN Fail(DatabaseError("Failed to find permissions by IDs", "findByIds"))
    ELSE Ok([i \in DOMAIN PermissionRowsIn(ids) |->
                Permission_reconstitute(permissions[PermissionRowsIn(ids)[i]])])

\* PermissionRepositoryImpl.findById
PermissionRepositoryImpl_findById(id, db) ==
    IF db = "error"
        THEN Fail(DatabaseError("Failed to find permission by ID", "findById"))
    ELSE IF id \in DOMAIN permissions
        THEN [ok |-> TRUE, found |-> TRUE,
              value |-> Permission_reconstitute([permissions[id] EXCEPT !.id = id])]
    ELSE [ok |-> TRUE, found |-> FALSE]

\* RoleRepositoryImpl.findByName
RoleRepositoryImpl_findByName(name, db) ==
    IF db = "error"
        THEN Fail(DatabaseError("Failed to find role by name", "findByName"))
    ELSE IF \E id \in DOMAIN roles : roles[id].name = Trim(ToUpperCase(name))
        THEN [ok |-> TRUE, found |-> TRUE,
              value |-> RoleRepositoryImpl_mapRole(
                          roles[CHOOSE id \in DOMAIN roles :
                                   roles[id].name = Trim(ToUpperCase(name))])]
    ELSE [ok |-> TRUE, found |-> FALSE]

\* RoleRepositoryImpl.existsByName
\* a variant that asks for the name in the letter case of the request
RoleRepositoryImpl_existsByName_exact(name, db) ==
    IF db = "error"
        THEN Fail(DatabaseError("Failed to check role existence by name", "existsByName"))
    ELSE Ok(\E id \in DOMAIN roles : roles[id].name = Trim(name))

RoleRepositoryImpl_existsByName(name, db) ==
    IF db = "error"
        THEN Fail(DatabaseError("Failed to check role existence by name", "existsByName"))
    ELSE Ok(\E id \in DOMAIN roles : roles[id].name = Trim(ToUpperCase(name)))

\* what prisma.role.create throws, if it throws: P2002 for a taken id or
\* name, P2025 for a permission to connect that has no row
RoleCreateRejection(role, db) ==
    IF db = "error" THEN "driver"
    ELSE IF role.id \in DOMAIN roles \/ \E id \in DOMAIN roles : roles[id].name = role.name
        THEN "P2002"
    ELSE IF \E i \in DOMAIN role.permissionIds : role.permissionIds[i] \notin DOMAIN permissions
        THEN "P2025"
    ELSE None

\* RoleRepositoryImpl.save: whatever the driver throws becomes a DatabaseError
RoleRepositoryImpl_save(role, db) ==
    IF RoleCreateRejection(role, db) # None
        THEN Fail([DatabaseError("Failed to save role", "save")
                     EXCEPT !.cause = RoleCreateRejection(role, db)])
    ELSE Ok(TRUE)

\* the row that save writes; isSystem, which the entity does not carry, is
\* left to the column's default
RoleRepositoryImpl_savedRow(role) ==
    [id |-> role.id, name |-> role.name, description |-> role.description,
     isSystem |-> IF "isSystem" \in DOMAIN role THEN role.isSystem ELSE FALSE,
     permissionIds |-> Role_getPermissionIds(role)]

RoleUpdateRejection(role, db) ==
    IF db = "error" THEN "driver"
    ELSE IF role.id \notin DOMAIN roles THEN "P2025"
    ELSE IF \E id \in DOMAIN roles \ {role.id} : roles[id].name = role.name THEN "P2002"
    ELSE IF \E i \in DOMAIN role.permissionIds : role.permissionIds[i] \notin DOMAIN permissions
        THEN "P2025"
    ELSE None

\* RoleRepositoryImpl.update
RoleRepositoryImpl_update(role, db) ==
    IF RoleUpdateRejection(role, db) # None
        THEN Fail([DatabaseError("Failed to update role", "update")
                     EXCEPT !.cause = RoleUpdateRejection(role, db)])
    ELSE Ok(TRUE)

RoleRepositoryImpl_updatedRow(role) ==
    [roles[role.id] EXCEPT !.name = role.name, !.description = role.description,
                           !.permissionIds = Role_getPermissionIds(role)]

\* RoleRepositoryImpl.delete: a missing row (P2025) is Ok(false)
RoleRepositoryImpl_delete(id, db) ==
    IF db = "error"
        THEN Fail([DatabaseError("Failed to delete role", "delete") EXCEPT !.cause = "driver"])
    ELSE Ok(id \in DOMAIN roles)

-----------------------------------------------------------------------------
(* Executions.  proc[p] is the execution in slot p: the operation, the     *)
(* await it is suspended at, its input, what it has loaded, the calls it   *)
(* has made to its collaborators, and its result once pc is "done".        *)

Procs == {1, 2}

Idle ==
    [op |-> "idle", pc |-> "idle", input |-> <<>>, local |-> <<>>,
     calls |-> <<>>, result |-> Fail(NoError)]

At(p, op, pc) == proc[p].op = op /\ proc[p].pc = pc

Call(p, op, pc, input) ==
    /\ proc[p].op = "idle"
    /\ proc' = [proc EXCEPT ![p] = [Idle EXCEPT !.op = op, !.pc = pc, !.input = input]]

\* the call made returned, and the execution is suspended at its next await
Resume(p, pc, local, call) ==
    proc' = [proc EXCEPT ![p].pc = pc, ![p].local = local,
                         ![p].calls = @ \o call]

\* the call made returned, and the execution returns result
Return(p, local, result, call) ==
    proc' = [proc EXCEPT ![p].pc = "done", ![p].local = local,
                         ![p].result = result, ![p].calls = @ \o call]

\* the execution returns without a further call
ReturnNow(p, local, result) ==
    proc' = [proc EXCEPT ![p].pc = "done", ![p].local = local, ![p].result = result]

\* the caller takes the result; the slot is free again
Complete(p) ==
    /\ proc[p].pc = "done"
    /\ proc' = [proc EXCEPT ![p] = Idle]
    /\ failure' = [failure EXCEPT ![p] = NoError]
    /\ UNCHANGED <<users, roles, permissions, pure>>

\* the repository call the execution awaited returned result
Observed(p, result) ==
    failure' = [failure EXCEPT ![p] = IF @ = NoError /\ ~result.ok THEN result.error
                                      ELSE @]

-----------------------------------------------------------------------------
(* AuthorizationService *)

UserIdInputs == UserIds \cup {GhostUserId}
ResourceInputs == {S_users, <<" ", "R", "o", "l", "e", "s">>}
ActionInputs == {S_read, S_delete}

AnyGrants(perms, resource, action) ==
    \E i \in DOMAIN perms : Permission_grants(perms[i], resource, action)

UserHasPermission_call(p) ==
    /\ \E userId \in UserIdInputs, resource \in ResourceInputs, action \in ActionInputs :
          Call(p, "userHasPermission", "findUser",
               [userId |-> userId, resource |-> resource, action |-> action])
    /\ UNCHANGED <<users, roles, permissions, pure, failure>>

\* a variant that looks the role up before it looks at isActive
UserHasPermission_findUser_late(p) ==
    /\ At(p, "userHasPermission", "findUser")
    /\ \E db \in DbOutcomes :
          LET userId == proc[p].input.userId
              userResult == UserRepository_findById(userId, db)
              call == <<"userRepository.findById">>
          IN  /\ Observed(p, userResult)
              /\ IF ~userResult.ok
                     THEN Return(p, <<>>, Fail(userResult.error), call)
                 ELSE IF ~userResult.found
                     THEN Return(p, <<>>,
                                 Fail(NotFoundError("User", IdString(userId),
                                        [Context EXCEPT !.aggregateType = "User",
                                                        !.aggregateId = userId])),
                                 call)
                 ELSE Resume(p, "findRole", [user |-> userResult.value], call)
    /\ UNCHANGED <<users, roles, permissions, pure>>

\* steps 1 and 2: load the user; an inactive user has no permissions
UserHasPermission_findUser(p) ==
    /\ At(p, "userHasPermission", "findUser")
    /\ \E db \in DbOutcomes :
          LET userId == proc[p].input.userId
              userResult == UserRepository_findById(userId, db)
              call == <<"userRepository.findById">>
          IN  /\ Observed(p, userResult)
              /\ IF ~userResult.ok
                     THEN Return(p, <<>>, Fail(userResult.error), call)
                 ELSE IF ~userResult.found
                     THEN Return(p, <<>>,
                                 Fail(NotFoundError("User", IdString(userId),
                                        [Context EXCEPT !.aggregateType = "User",
                                                        !.aggregateId = userId])),
                                 call)
                 ELSE IF ~userResult.value.isActive
                     THEN Return(p, [user |-> userResult.value], Ok(FALSE), call)
                 ELSE Resume(p, "findRole", [user |-> userResult.value], call)
    /\ UNCHANGED <<users, roles, permissions, pure>>

\* steps 3 and 4: load the role; a role without permission ids grants nothing
UserHasPermission_findRole(p) ==
    /\ At(p, "userHasPermission", "findRole")
    /\ \E db \in DbOutcomes :
          LET user == proc[p].local.user
              roleResult == RoleRepositoryImpl_findById(user.roleId, db)
              call == <<"roleRepository.findById">>
          IN  /\ Observed(p, roleResult)
              /\ IF ~roleResult.ok
                     THEN Return(p, [user |-> user], Fail(roleResult.error), call)
                 ELSE IF ~roleResult.found
                     THEN Return(p, [user |-> user],
                                 Fail(NotFoundError("Role", IdString(user.roleId),
                                        [Context EXCEPT !.aggregateType = "Role",
                                                        !.aggregateId = user.roleId])),
                                 call)
                 ELSE IF Len(Role_getPermissionIds(roleResult.value)) = 0
                     THEN Return(p, [user |-> user, role |-> roleResult.value],
                                 Ok(FALSE), call)
                 ELSE Resume(p, "findPermissions",
                             [user |-> user, role |-> roleResult.value], call)
    /\ UNCHANGED <<users, roles, permissions, pure>>

\* steps 5 and 6: bulk-load the permissions; any of them may grant
UserHasPermission_findPermissions(p) ==
    /\ At(p, "userHasPermission", "findPermissions")
    /\ \E db \in DbOutcomes :
          LET local == proc[p].local
              permissionIds == Role_getPermissionIds(local.role)
              permissionsResult == PermissionRepositoryImpl_findByIds(permissionIds, db)
              call == <<"permissionRepository.findByIds">>
          IN  /\ Observed(p, permissionsResult)
              /\ IF ~permissionsResult.ok
                     THEN Return(p, local, Fail(permissionsResult.error), call)
                 ELSE Return(p,
                             [user |-> local.user, role |-> local.role,
                              loaded |-> permissionsResult.value],
                             Ok(AnyGrants(permissionsResult.value,
                                          proc[p].input.resource, proc[p].input.action)),
                             call)
    /\ UNCHANGED <<users, roles, permissions, pure>>

GetUserPermissions_call(p) ==
    /\ \E userId \in UserIdInputs :
          Call(p, "getUserPermissions", "findUser", [userId |-> userId])
    /\ UNCHANGED <<users, roles, permissions, pure, failure>>

GetUserPermissions_findUser(p) ==
    /\ At(p, "getUserPermissions", "findUser")
    /\ \E db \in DbOutcomes :
          LET userId == proc[p].input.userId
              userResult == UserRepository_findById(userId, db)
              call == <<"userRepository.findById">>
          IN  /\ Observed(p, userResult)
              /\ IF ~userResult.ok
                     THEN Return(p, <<>>, Fail(userResult.error), call)
                 ELSE IF ~userResult.found
                     THEN Return(p, <<>>,
                                 Fail(NotFoundError("User", IdString(userId),
                                        [Context EXCEPT !.aggregateType = "User",
                                                        !.aggregateId = userId])),
                                 call)
                 ELSE IF ~userResult.value.isActive
                     THEN Return(p, [user |-> userResult.value], Ok(<<>>), call)
                 ELSE Resume(p, "findRole", [user |-> userResult.value], call)
    /\ UNCHANGED <<users, roles, permissions, pure>>

\* a variant that treats a missing role as userHasPermission does
GetUserPermissions_findRole_strict(p) ==
    /\ At(p, "getUserPermissions", "findRole")
    /\ \E db \in DbOutcomes :
          LET user == proc[p].local.user
              roleResult == RoleRepositoryImpl_findById(user.roleId, db)
              call == <<"roleRepository.findById">>
          IN  /\ Observed(p, roleResult)
              /\ IF ~roleResult.ok
                     THEN Return(p, [user |-> user], Fail(roleResult.error), call)
                 ELSE IF ~roleResult.found
                     THEN Return(p, [user |-> user],
                                 Fail(NotFoundError("Role", IdString(user.roleId),
                                        [Context EXCEPT !.aggregateType = "Role",
                                                        !.aggregateId = user.roleId])),
                                 call)
                 ELSE IF Len(Role_getPermissionIds(roleResult.value)) = 0
                     THEN Return(p, [user |-> user, role |-> roleResult.value],
                                 Ok(<<>>), call)
                 ELSE Resume(p, "findPermissions",
                             [user |-> user, role |-> roleResult.value], call)
    /\ UNCHANGED <<users, roles, permissions, pure>>

GetUserPermissions_findRole(p) ==
    /\ At(p, "getUserPermissions", "findRole")
    /\ \E db \in DbOutcomes :
          LET user == proc[p].local.user
              roleResult == RoleRepositoryImpl_findById(user.roleId, db)
              call == <<"roleRepository.findById">>
          IN  /\ Observed(p, roleResult)
              /\ IF ~roleResult.ok
                     THEN Return(p, [user |-> user], Fail(roleResult.error), call)
                 ELSE IF ~roleResult.found
                     THEN Return(p, [user |-> user], Ok(<<>>), call)
                 ELSE IF Len(Role_getPermissionIds(roleResult.value)) = 0
                     THEN Return(p, [user |-> user, role |-> roleResult.value],
                                 Ok(<<>>), call)
                 ELSE Resume(p, "findPermissions",
                             [user |-> user, role |-> roleResult.value], call)
    /\ UNCHANGED <<users, roles, permissions, pure>>

GetUserPermissions_findPermissions(p) ==
    /\ At(p, "getUserPermissions", "findPermissions")
    /\ \E db \in DbOutcomes :
          LET local == proc[p].local
              permissionIds == Role_getPermissionIds(local.role)
              permissionsResult == PermissionRepositoryImpl_findByIds(permissionIds, db)
              call == <<"permissionRepository.findByIds">>
          IN  /\ Observed(p, permissionsResult)
              /\ IF ~permissionsResult.ok
                     THEN Return(p, local, Fail(permissionsResult.error), call)
                 ELSE Return(p,
                             [user |-> local.user, role |-> local.role,
                              loaded |-> permissionsResult.value],
                             Ok(permissionsResult.value), call)
    /\ UNCHANGED <<users, roles, permissions, pure>>

RoleNameInputs == {S_ADMIN, <<"a", "d", "m", "i", "n">>, <<"S", "u", "p", "p", "o", "r", "t">>}

UserHasRole_call(p) ==
    /\ \E userId \in UserIdInputs, roleName \in RoleNameInputs :
          Call(p, "userHasRole", "findUser", [userId |-> userId, roleName |-> roleName])
    /\ UNCHANGED <<users, roles, permissions, pure, failure>>

\* load the user; isActive is not looked at
UserHasRole_findUser(p) ==
    /\ At(p, "userHasRole", "findUser")
    /\ \E db \in DbOutcomes :
          LET userId == proc[p].input.userId
              userResult == UserRepository_findById(userId, db)
              call == <<"userRepository.findById">>
          IN  /\ Observed(p, userResult)
              /\ IF ~userResult.ok
                     THEN Return(p, <<>>, Fail(userResult.error), call)
                 ELSE IF ~userResult.found
                     THEN Return(p, <<>>,
                                 Fail(NotFoundError("User", IdString(userId),
                                        [Context EXCEPT !.aggregateType = "User",
                                                        !.aggregateId = userId])),
                                 call)
                 ELSE Resume(p, "findRole", [user |-> userResult.value], call)
    /\ UNCHANGED <<users, roles, permissions, pure>>

\* a variant that compares the two names as they are
UserHasRole_findRole_exact(p) ==
    /\ At(p, "userHasRole", "findRole")
    /\ \E db \in DbOutcomes :
          LET user == proc[p].local.user
              roleResult == RoleRepositoryImpl_findById(user.roleId, db)
              call == <<"roleRepository.findById">>
          IN  /\ Observed(p, roleResult)
              /\ IF ~roleResult.ok
                     THEN Return(p, [user |-> user], Fail(roleResult.error), call)
                 ELSE IF ~roleResult.found
                     THEN Return(p, [user |-> user], Ok(FALSE), call)
                 ELSE Return(p, [user |-> user, role |-> roleResult.value],
                             Ok(roleResult.value.name = proc[p].input.roleName),
                             call)
    /\ UNCHANGED <<users, roles, permissions, pure>>

\* load the role; no role is Ok(false), else the names are compared in uppercase
UserHasRole_findRole(p) ==
    /\ At(p, "userHasRole", "findRole")
    /\ \E db \in DbOutcomes :
          LET user == proc[p].local.user
              roleResult == RoleRepositoryImpl_findById(user.roleId, db)
              call == <<"roleRepository.findById">>
          IN  /\ Observed(p, roleResult)
              /\ IF ~roleResult.ok
                     THEN Return(p, [user |-> user], Fail(roleResult.error), call)
                 ELSE IF ~roleResult.found
                     THEN Return(p, [user |-> user], Ok(FALSE), call)
                 ELSE Return(p, [user |-> user, role |-> roleResult.value],
                             Ok(ToUpperCase(roleResult.value.name)
                                    = ToUpperCase(proc[p].input.roleName)),
                             call)
    /\ UNCHANGED <<users, roles, permissions, pure>>

-----------------------------------------------------------------------------
(* Value objects *)

MaxEmailLen == 255
MaxLocalPartLen == 64
MinPasswordLen == 8
MaxPasswordLen == 72
MaxNameLen == 100

IndexOf(s, c) ==
    IF \E i \in DOMAIN s : s[i] = c
    THEN CHOOSE i \in DOMAIN s : s[i] = c /\ \A j \in 1..(i - 1) : s[j] # c
    ELSE 0

\* /^[^\s@]+@[^\s@]+\.[^\s@]+$/
MatchesEmailRegex(s) ==
    LET at == IndexOf(s, "@")
        domain == SubSeq(s, at + 1, Len(s))
    IN  /\ at > 1
        /\ \A i \in DOMAIN s : ~IsWhitespace(s[i]) /\ (s[i] = "@" => i = at)
        /\ \E i \in DOMAIN domain : domain[i] = "." /\ 1 < i /\ i < Len(domain)

\* Email.create: trims and lowercases, then validates
Email_create(email) ==
    LET normalized == ToLowerCase(Trim(email))
        at == IndexOf(normalized, "@")
    IN  IF email = <<>> \/ Len(Trim(email)) = 0
            THEN Fail(ValidationError("email", "Email cannot be empty"))
        ELSE IF Len(normalized) > MaxEmailLen
            THEN Fail(ValidationError("email", "Email cannot exceed 255 characters"))
        ELSE IF ~MatchesEmailRegex(normalized)
            THEN Fail(ValidationError("email", "Invalid email format"))
        ELSE IF Len(SubSeq(normalized, 1, at - 1)) > MaxLocalPartLen
            THEN Fail(ValidationError("email",
                                      "Email local part cannot exceed 64 characters"))
        ELSE IF Len(SubSeq(normalized, at + 1, Len(normalized))) > MaxEmailLen
            THEN Fail(ValidationError("email",
                                      "Email domain cannot exceed 255 characters"))
        ELSE Ok(normalized)

\* the special characters of the password policy's character class (the double
\* quote, the backslash and the backtick, which no password drawn here contains,
\* left out)
SpecialChars ==
    {"!", "@", "#", "$", "%", "^", "&", "*", "(", ")", ",", ".", "?", ":",
     "{", "}", "|", "<", ">", "_", "-", "+", "=", "[", "]", "/", "'", "~"}

\* Password.create: the policy on the plaintext; nothing is hashed here
Password_create(password) ==
    IF password = <<>> \/ Len(Trim(password)) = 0
        THEN Fail(ValidationError("password", "Password cannot be empty"))
    ELSE IF Len(password) < MinPasswordLen
        THEN Fail(ValidationError("password",
                                  "Password must be at least 8 characters long"))
    ELSE IF Len(password) > MaxPasswordLen
        THEN Fail(ValidationError("password", "Password cannot exceed 72 characters"))
    ELSE IF ~\E i \in DOMAIN password : IsUpper(password[i])
        THEN Fail(ValidationError("password",
                                  "Password must contain at least one uppercase letter"))
    ELSE IF ~\E i \in DOMAIN password : IsLower(password[i])
        THEN Fail(ValidationError("password",
                                  "Password must contain at least one lowercase letter"))
    ELSE IF ~\E i \in DOMAIN password : password[i] \in Digits
        THEN Fail(ValidationError("password",
                                  "Password must contain at least one number"))
    ELSE IF ~\E i \in DOMAIN password : password[i] \in SpecialChars
        THEN Fail(ValidationError("password",
                                  "Password must contain at least one special character"))
    ELSE Ok(password)

\* UserId.fromString
UserId_fromString(id) ==
    IF id = ""
        THEN Fail(ValidationError("userId", "User ID cannot be empty"))
    ELSE IF ~IsUuidV4(id)
        THEN Fail(ValidationError("userId", "User ID must be a valid UUID v4"))
    ELSE Ok(id)

\* PermissionId.fromString
PermissionId_fromString(id) ==
    IF id = ""
        THEN Fail(ValidationError("permissionId", "Permission ID cannot be empty"))
    ELSE IF ~IsUuidV4(id)
        THEN Fail(ValidationError("permissionId", "Permission ID must be a valid UUID v4"))
    ELSE Ok(id)

\* RoleId.fromString
RoleId_fromString(id) ==
    IF id = ""
        THEN Fail(ValidationError("roleId", "Role ID cannot be empty"))
    ELSE IF ~IsUuidV4(id)
        THEN Fail(ValidationError("roleId", "Role ID must be a valid UUID v4"))
    ELSE Ok(id)

-----------------------------------------------------------------------------
(* User entity.  A mutator returns the result and the entity after it.     *)

\* /^[a-zA-Z\s'-]+$/
MatchesNameRegex(s) ==
    /\ s # <<>>
    /\ \A i \in DOMAIN s : IsLetter(s[i]) \/ IsWhitespace(s[i]) \/ s[i] \in {"'", "-"}

User_validateName(name, fieldName) ==
    IF name = <<>> \/ Len(Trim(name)) = 0
        THEN Fail(ValidationError(fieldName, "is required"))
    ELSE IF Len(Trim(name)) > MaxNameLen
        THEN Fail(ValidationError(fieldName, "must not exceed 100 characters"))
    ELSE IF ~MatchesNameRegex(Trim(name))
        THEN Fail(ValidationError(fieldName,
                 "must contain only letters, spaces, hyphens, and apostrophes"))
    ELSE Ok(TRUE)

\* User.create: active by default
User_create(id, props) ==
    IF ~User_validateName(props.firstName, "firstName").ok
        THEN User_validateName(props.firstName, "firstName")
    ELSE IF ~User_validateName(props.lastName, "lastName").ok
        THEN User_validateName(props.lastName, "lastName")
    ELSE Ok([id |-> id, email |-> props.email, password |-> props.password,
             firstName |-> Trim(props.firstName), lastName |-> Trim(props.lastName),
             isActive |-> TRUE, roleId |-> props.roleId])

Mutated(result, user) == [result |-> result, user |-> user]

\* this._updatedAt = new Date(): the entity's date becomes what the clock of
\* the entity-level specification reads; the rows of the use-case
\* specifications carry no dates
Touched(entity) ==
    IF "updatedAt" \in DOMAIN entity THEN [entity EXCEPT !.updatedAt = pure.now]
    ELSE entity

User_changeEmail(user, newEmail) ==
    IF user.email = newEmail
    THEN Mutated(Fail(ValidationError("email", "New email is the same as current email")),
                 user)
    ELSE Mutated(Ok(TRUE), Touched([user EXCEPT !.email = newEmail]))

User_changePassword(user, newPassword) ==
    IF user.password = newPassword
    THEN Mutated(Fail(ValidationError("password",
                        "New password is the same as current password")), user)
    ELSE Mutated(Ok(TRUE), Touched([user EXCEPT !.password = newPassword]))

User_changeFirstName(user, newFirstName) ==
    IF ~User_validateName(newFirstName, "firstName").ok
    THEN Mutated(User_validateName(newFirstName, "firstName"), user)
    ELSE Mutated(Ok(TRUE), Touched([user EXCEPT !.firstName = Trim(newFirstName)]))

User_changeLastName(user, newLastName) ==
    IF ~User_validateName(newLastName, "lastName").ok
    THEN Mutated(User_validateName(newLastName, "lastName"), user)
    ELSE Mutated(Ok(TRUE), Touched([user EXCEPT !.lastName = Trim(newLastName)]))

User_activate(user) ==
    IF user.isActive
    THEN Mutated(Fail(ValidationError("isActive", "User is already active")), user)
    ELSE Mutated(Ok(TRUE), Touched([user EXCEPT !.isActive = TRUE]))

\* a variant for which deactivating an inactive user is a change like any other
User_deactivate_again(user) ==
    Mutated(Ok(TRUE), Touched([user EXCEPT !.isActive = FALSE]))

User_deactivate(user) ==
    IF ~user.isActive
    THEN Mutated(Fail(ValidationError("isActive", "User is already inactive")), user)
    ELSE Mutated(Ok(TRUE), Touched([user EXCEPT !.isActive = FALSE]))

User_changeRole(user, newRoleId) ==
    IF user.roleId = newRoleId
    THEN Mutated(Fail(ValidationError("roleId", "New role is the same as current role")),
                 user)
    ELSE Mutated(Ok(TRUE), Touched([user EXCEPT !.roleId = newRoleId]))

\* User.canAuthenticate
User_canAuthenticate(user) == user.isActive

\* User.getFullName
User_getFullName(user) == user.firstName \o <<" ">> \o user.lastName

\* a variant that copies every field of the entity
UserMapper_toDto_all(user) ==
    [id |-> user.id, email |-> user.email, firstName |-> user.firstName,
     lastName |-> user.lastName, fullName |-> User_getFullName(user),
     isActive |-> user.isActive, roleId |-> user.roleId,
     password |-> user.password]

\* UserMapper.toDto
UserMapper_toDto(user) ==
    [id |-> user.id, email |-> user.email, firstName |-> user.firstName,
     lastName |-> user.lastName, fullName |-> User_getFullName(user),
     isActive |-> user.isActive, roleId |-> user.roleId]

-----------------------------------------------------------------------------
(* IUserRepository: the port, as its interface declares it *)

UserRepository_existsByEmail(email, db) ==
    IF db = "error"
        THEN Fail(DatabaseError("Failed to check user existence by email", "existsByEmail"))
    ELSE Ok(\E id \in DOMAIN users : users[id].email = email)

UserRepository_findByEmail(email, db) ==
    IF db = "error"
        THEN Fail(DatabaseError("Failed to find user by email", "findByEmail"))
    ELSE IF \E id \in DOMAIN users : users[id].email = email
        THEN [ok |-> TRUE, found |-> TRUE,
              value |-> users[CHOOSE id \in DOMAIN users : users[id].email = email]]
    ELSE [ok |-> TRUE, found |-> FALSE]

\* update: fails when the row is gone or another row holds the email
UserRepository_update(user, db) ==
    IF \/ db = "error"
       \/ user.id \notin DOMAIN users
       \/ \E id \in DOMAIN users \ {user.id} : users[id].email = user.email
        THEN Fail(DatabaseError("Failed to update user", "update"))
    ELSE Ok(TRUE)

\* save: fails when the email is taken; the storage's uniqueness violation is
\* reported as the conflict that the existence check reports
UserRepository_save(user, db) ==
    IF db = "error" THEN Fail(DatabaseError("Failed to save user", "save"))
    ELSE IF user.id \in DOMAIN users \/ \E id \in DOMAIN users : users[id].email = user.email
        THEN Fail(ConflictError("User", "email", user.email, "Email already registered",
                                [Error(None, None) EXCEPT !.aggregateType = "User"]))
    ELSE Ok(TRUE)

\* delete: reports whether a row with the id existed, and the row is gone
UserRepository_delete(id, db) ==
    IF db = "error" THEN Fail(DatabaseError("Failed to delete user", "delete"))
    ELSE Ok(id \in DOMAIN users)

UserIdOrder == <<"u-admin", "u-bob", "u-new1", "u-new2">>

\* findAll(limit, offset): the rows in table order, offset skipped, limit taken
UserRepository_findAll(limit, offset, db) ==
    LET rows == SelectSeq(UserIdOrder, LAMBDA id : id \in DOMAIN users)
        last == IF offset + limit < Len(rows) THEN offset + limit ELSE Len(rows)
    IN  IF db = "error" THEN Fail(DatabaseError("Failed to find users", "findAll"))
        ELSE Ok([i \in 1..(IF last > offset THEN last - offset ELSE 0) |->
                    users[rows[offset + i]]])

UserRepository_count(db) ==
    IF db = "error" THEN Fail(DatabaseError("Failed to count users", "count"))
    ELSE Ok(Cardinality(DOMAIN users))

-----------------------------------------------------------------------------
(* UpdateUserUseCase.  The handler is a chain of optional sections; each   *)
(* Section operator runs the synchronous code from one section on, up to   *)
(* the next await ("await") or to a failure ("return").                    *)

Truthy(s) == s # Undefined /\ s # <<>>
TruthyId(id) == id # None /\ id # ""

AwaitPlan(pc, user, newEmail) ==
    [kind |-> "await", pc |-> pc, user |-> user, newEmail |-> newEmail,
     result |-> Fail(NoError)]
ReturnPlan(result, user) ==
    [kind |-> "return", pc |-> "done", user |-> user, newEmail |-> Undefined,
     result |-> result]

UpdateUser_isActiveSection(user, in) ==
    IF in.isActive # "undefined" /\ (in.isActive = "true") # user.isActive
    THEN LET activationResult ==
                 IF in.isActive = "true" THEN User_activate(user)
                                         ELSE User_deactivate(user)
         IN  IF ~activationResult.result.ok
             THEN ReturnPlan(activationResult.result, activationResult.user)
             ELSE AwaitPlan("update", activationResult.user, Undefined)
    ELSE AwaitPlan("update", user, Undefined)

UpdateUser_roleSection(user, in) ==
    IF TruthyId(in.roleId)
    THEN IF ~RoleId_fromString(in.roleId).ok
         THEN ReturnPlan(RoleId_fromString(in.roleId), user)
         ELSE AwaitPlan("findRole", user, Undefined)
    ELSE UpdateUser_isActiveSection(user, in)

UpdateUser_lastNameSection(user, in) ==
    IF Truthy(in.lastName)
    THEN LET changed == User_changeLastName(user, in.lastName)
         IN  IF ~changed.result.ok
             THEN ReturnPlan(changed.result, changed.user)
             ELSE UpdateUser_roleSection(changed.user, in)
    ELSE UpdateUser_roleSection(user, in)

UpdateUser_firstNameSection(user, in) ==
    IF Truthy(in.firstName)
    THEN LET changed == User_changeFirstName(user, in.firstName)
         IN  IF ~changed.result.ok
             THEN ReturnPlan(changed.result, changed.user)
             ELSE UpdateUser_lastNameSection(changed.user, in)
    ELSE UpdateUser_lastNameSection(user, in)

UpdateUser_passwordSection(user, in) ==
    IF Truthy(in.password)
    THEN IF ~Password_create(in.password).ok
         THEN ReturnPlan(Password_create(in.password), user)
         ELSE AwaitPlan("hash", user, Undefined)
    ELSE UpdateUser_firstNameSection(user, in)

UpdateUser_emailSection(user, in) ==
    IF Truthy(in.email) /\ in.email # user.email
    THEN IF ~Email_create(in.email).ok
         THEN ReturnPlan(Email_create(in.email), user)
         ELSE AwaitPlan("existsByEmail", user, Email_create(in.email).value)
    ELSE UpdateUser_passwordSection(user, in)

Follow(p, plan, call) ==
    IF plan.kind = "return"
    THEN Return(p, [user |-> plan.user, newEmail |-> Undefined], plan.result, call)
    ELSE Resume(p, plan.pc, [user |-> plan.user, newEmail |-> plan.newEmail], call)

NoUpdate ==
    [email |-> Undefined, password |-> Undefined, firstName |-> Undefined,
     lastName |-> Undefined, roleId |-> None, isActive |-> "undefined"]

PW_new == <<"N", "e", "w", "p", "w", "#", "1", "2">>

UpdateUserInputs ==
    {[NoUpdate EXCEPT !.isActive = "false"],
     [NoUpdate EXCEPT !.isActive = "true"],
     [NoUpdate EXCEPT !.roleId = "r-admin"],
     [NoUpdate EXCEPT !.roleId = "r-gone", !.isActive = "true"],
     [NoUpdate EXCEPT !.password = PW_new],
     [NoUpdate EXCEPT !.email = <<"B", "@", "x", ".", "y">>, !.firstName = <<"B", "o">>],
     [NoUpdate EXCEPT !.lastName = <<"B", "0">>, !.isActive = "false"]}

\* execute(userId, input) up to its first await, for an input among inputs
UpdateUser_start(p, inputs) ==
    /\ proc[p].op = "idle"
    /\ \E userId \in {"u-bob", GhostUserId} \cup BadIds, in \in inputs :
          LET here == [Idle EXCEPT !.op = "updateUser",
                                   !.input = [userId |-> userId, in |-> in]]
          IN  IF ~UserId_fromString(userId).ok
              THEN proc' = [proc EXCEPT ![p] =
                              [here EXCEPT !.pc = "done",
                                           !.result = UserId_fromString(userId)]]
              ELSE proc' = [proc EXCEPT ![p] = [here EXCEPT !.pc = "findById"]]
    /\ UNCHANGED <<users, roles, permissions, pure, failure>>

UpdateUser_call(p) == UpdateUser_start(p, UpdateUserInputs)

\* the updates that change what a user may do
UpdateUser_callAccess(p) ==
    UpdateUser_start(p, {in \in UpdateUserInputs :
                            /\ in.email = Undefined /\ in.password = Undefined
                            /\ in.firstName = Undefined /\ in.lastName = Undefined})

\* requests whose earlier fields are valid and whose later field is refused,
\* and one that succeeds
LateFailureInputs ==
    {[NoUpdate EXCEPT !.firstName = <<"B", "o">>, !.roleId = "r-gone"],
     [NoUpdate EXCEPT !.firstName = <<"B", "o">>, !.roleId = "r-ops"],
     [NoUpdate EXCEPT !.firstName = <<"B", "o">>, !.lastName = <<"B", "0">>],
     [NoUpdate EXCEPT !.email = <<"c", "@", "x", ".", "y">>, !.password = <<"p">>],
     [NoUpdate EXCEPT !.password = PW_new, !.firstName = <<"B", "0">>],
     [NoUpdate EXCEPT !.firstName = <<"B", "o">>]}

UpdateUser_callLate(p) == UpdateUser_start(p, LateFailureInputs)

\* the requests that ask for an email: the one held, the one held in another
\* letter case and with a space before it, another user's, a new user's, none's,
\* and one that changes the password and the role as well
EmailUpdateInputs ==
    {[NoUpdate EXCEPT !.email = email] :
        email \in {E_bob, <<" ", "B", "@", "x", ".", "y">>, <<"A", "@", "x", ".", "y">>,
                   <<"c", "@", "x", ".", "y", " ">>, <<"D", "@", "x", ".", "y">>}}
    \cup {[NoUpdate EXCEPT !.email = <<"D", "@", "x", ".", "y">>, !.password = PW_new,
                            !.roleId = "r-admin"]}

UpdateUser_callEmail(p) == UpdateUser_start(p, EmailUpdateInputs)

\* a variant that changes the email whatever existsByEmail answered
UpdateUser_existsByEmail_unasked(p) ==
    /\ At(p, "updateUser", "existsByEmail")
    /\ \E db \in DbOutcomes :
          LET local == proc[p].local
              in == proc[p].input.in
              emailExistsResult == UserRepository_existsByEmail(local.newEmail, db)
              changed == User_changeEmail(local.user, local.newEmail)
              call == <<"userRepository.existsByEmail">>
          IN  /\ Observed(p, emailExistsResult)
              /\ IF ~emailExistsResult.ok
                     THEN Return(p, local, Fail(emailExistsResult.error), call)
                 ELSE IF ~changed.result.ok
                     THEN Return(p, local, changed.result, call)
                 ELSE Follow(p, UpdateUser_passwordSection(changed.user, in), call)
    /\ UNCHANGED <<users, roles, permissions, pure>>

UpdateUser_findById(p) ==
    /\ At(p, "updateUser", "findById")
    /\ \E db \in DbOutcomes :
          LET userId == proc[p].input.userId
              userResult == UserRepository_findById(userId, db)
              call == <<"userRepository.findById">>
          IN  /\ Observed(p, userResult)
              /\ IF ~userResult.ok
                     THEN Return(p, <<>>, Fail(userResult.error), call)
                 ELSE IF ~userResult.found
                     THEN Return(p, <<>>,
                                 Fail(NotFoundError("User", IdString(userId),
                                        [Context EXCEPT
                                           !.reason = "User not found with provided ID"])),
                                 call)
                 ELSE Follow(p, UpdateUser_emailSection(userResult.value, proc[p].input.in),
                             call)
    /\ UNCHANGED <<users, roles, permissions, pure>>

UpdateUser_existsByEmail(p) ==
    /\ At(p, "updateUser", "existsByEmail")
    /\ \E db \in DbOutcomes :
          LET local == proc[p].local
              in == proc[p].input.in
              emailExistsResult == UserRepository_existsByEmail(local.newEmail, db)
              changed == User_changeEmail(local.user, local.newEmail)
              call == <<"userRepository.existsByEmail">>
          IN  /\ Observed(p, emailExistsResult)
              /\ IF ~emailExistsResult.ok
                     THEN Return(p, local, Fail(emailExistsResult.error), call)
                 ELSE IF emailExistsResult.value
                     THEN Return(p, local,
                                 Fail(ConflictError("User", "email", in.email,
                                        "Email already registered",
                                        [Context EXCEPT !.aggregateType = "User",
                                                        !.operation = "update",
                                                        !.metaValue = in.email])),
                                 call)
                 ELSE IF ~changed.result.ok
                     THEN Return(p, local, changed.result, call)
                 ELSE Follow(p, UpdateUser_passwordSection(changed.user, in), call)
    /\ UNCHANGED <<users, roles, permissions, pure>>

UpdateUser_hash(p) ==
    /\ At(p, "updateUser", "hash")
    /\ LET local == proc[p].local
           in == proc[p].input.in
           changed == User_changePassword(local.user,
                                          PasswordHashService_hash(in.password))
           call == <<"passwordHashService.hash">>
       IN  IF ~changed.result.ok
               THEN Return(p, local, changed.result, call)
           ELSE Follow(p, UpdateUser_firstNameSection(changed.user, in), call)
    /\ UNCHANGED <<users, roles, permissions, pure, failure>>

\* a variant that stores the entity as changed so far when the role is missing
UpdateUser_findRole_storing(p) ==
    /\ At(p, "updateUser", "findRole")
    /\ \E db \in DbOutcomes :
          LET local == proc[p].local
              in == proc[p].input.in
              roleResult == RoleRepositoryImpl_findById(in.roleId, db)
              changed == User_changeRole(local.user, in.roleId)
              call == <<"roleRepository.findById">>
          IN  /\ Observed(p, roleResult)
              /\ IF ~roleResult.ok
                     THEN /\ Return(p, local, Fail(roleResult.error), call)
                          /\ users' = users
                 ELSE IF ~roleResult.found
                     THEN /\ Return(p, local,
                                    Fail(NotFoundError("Role", IdString(in.roleId),
                                           [Context EXCEPT !.aggregateType = "Role",
                                                           !.aggregateId = in.roleId,
                                                           !.operation = "update_user"])),
                                    call)
                          /\ users' = IF local.user.id \in DOMAIN users
                                       THEN [users EXCEPT ![local.user.id] = local.user]
                                       ELSE users
                 ELSE IF ~changed.result.ok
                     THEN /\ Return(p, local, changed.result, call)
                          /\ users' = users
                 ELSE /\ Follow(p, UpdateUser_isActiveSection(changed.user, in), call)
                      /\ users' = users
    /\ UNCHANGED <<roles, permissions, pure>>

UpdateUser_findRole(p) ==
    /\ At(p, "updateUser", "findRole")
    /\ \E db \in DbOutcomes :
          LET local == proc[p].local
              in == proc[p].input.in
              roleResult == RoleRepositoryImpl_findById(in.roleId, db)
              changed == User_changeRole(local.user, in.roleId)
              call == <<"roleRepository.findById">>
          IN  /\ Observed(p, roleResult)
              /\ IF ~roleResult.ok
                     THEN Return(p, local, Fail(roleResult.error), call)
                 ELSE IF ~roleResult.found
                     THEN Return(p, local,
                                 Fail(NotFoundError("Role", IdString(in.roleId),
                                        [Context EXCEPT !.aggregateType = "Role",
                                                        !.aggregateId = in.roleId,
                                                        !.operation = "update_user"])),
                                 call)
                 ELSE IF ~changed.result.ok
                     THEN Return(p, local, changed.result, call)
                 ELSE Follow(p, UpdateUser_isActiveSection(changed.user, in), call)
    /\ UNCHANGED <<users, roles, permissions, pure>>

UpdateUser_update(p) ==
    /\ At(p, "updateUser", "update")
    /\ \E db \in DbOutcomes :
          LET local == proc[p].local
              updateResult == UserRepository_update(local.user, db)
              call == <<"userRepository.update">>
          IN  /\ Observed(p, updateResult)
              /\ IF ~updateResult.ok
                     THEN /\ Return(p, local, Fail(updateResult.error), call)
                          /\ users' = users
                 ELSE /\ Return(p, local, Ok(UserMapper_toDto(local.user)), call)
                      /\ users' = [users EXCEPT ![local.user.id] = local.user]
    /\ UNCHANGED <<roles, permissions, pure>>

-----------------------------------------------------------------------------
(* GetUserByIdUseCase *)

GetUserById_call(p) ==
    /\ proc[p].op = "idle"
    /\ \E userId \in UserIdInputs \cup BadIds :
          LET here == [Idle EXCEPT !.op = "getUserById", !.input = [userId |-> userId]]
          IN  IF ~UserId_fromString(userId).ok
              THEN proc' = [proc EXCEPT ![p] =
                              [here EXCEPT !.pc = "done",
                                           !.result = UserId_fromString(userId)]]
              ELSE proc' = [proc EXCEPT ![p] = [here EXCEPT !.pc = "findById"]]
    /\ UNCHANGED <<users, roles, permissions, pure, failure>>

\* a variant that answers a failed lookup as it answers a missing user
GetUserById_findById_lenient(p) ==
    /\ At(p, "getUserById", "findById")
    /\ \E db \in DbOutcomes :
          LET userId == proc[p].input.userId
              userResult == UserRepository_findById(userId, db)
              call == <<"userRepository.findById">>
          IN  /\ Observed(p, userResult)
              /\ IF ~userResult.ok \/ ~userResult.found
                     THEN Return(p, <<>>,
                                 Fail(NotFoundError("User", IdString(userId),
                                        [Context EXCEPT
                                           !.reason = "User not found with provided ID"])),
                                 call)
                 ELSE Return(p, [user |-> userResult.value],
                             Ok(UserMapper_toDto(userResult.value)), call)
    /\ UNCHANGED <<users, roles, permissions, pure>>

GetUserById_findById(p) ==
    /\ At(p, "getUserById", "findById")
    /\ \E db \in DbOutcomes :
          LET userId == proc[p].input.userId
              userResult == UserRepository_findById(userId, db)
              call == <<"userRepository.findById">>
          IN  /\ Observed(p, userResult)
              /\ IF ~userResult.ok
                     THEN Return(p, <<>>, Fail(userResult.error), call)
                 ELSE IF ~userResult.found
                     THEN Return(p, <<>>,
                                 Fail(NotFoundError("User", IdString(userId),
                                        [Context EXCEPT
                                           !.reason = "User not found with provided ID"])),
                                 call)
                 ELSE Return(p, [user |-> userResult.value],
                             Ok(UserMapper_toDto(userResult.value)), call)
    /\ UNCHANGED <<users, roles, permissions, pure>>

-----------------------------------------------------------------------------
(* CreateUserUseCase and RegisterUserUseCase *)

NewUserId(p) == IF p = 1 THEN "u-new1" ELSE "u-new2"

NewUser ==
    [email |-> <<"C", "@", "x", ".", "y">>, password |-> PW_new,
     firstName |-> <<"C", " ">>, lastName |-> <<"D">>, roleId |-> "r-user"]

CreateUserInputs ==
    {NewUser,
     [NewUser EXCEPT !.email = E_bob],
     [NewUser EXCEPT !.email = <<"c", "@", "x">>],
     [NewUser EXCEPT !.password = <<"w">>],
     [NewUser EXCEPT !.roleId = "r-gone"],
     [NewUser EXCEPT !.roleId = "not-a-uuid"],
     [NewUser EXCEPT !.firstName = <<"C", "1">>]}

EmailTaken(email, operation) ==
    ConflictError("User", "email", email, "Email already registered",
                  [Context EXCEPT !.aggregateType = "User", !.operation = operation,
                                  !.metaValue = email])

\* execute(input) up to its first await; CreateUser and RegisterUser start alike
CreateUser_start(p, op, inputs) ==
    /\ proc[p].op = "idle"
    /\ NewUserId(p) \notin DOMAIN users
    /\ \E in \in inputs :
          LET here == [Idle EXCEPT !.op = op, !.input = in]
          IN  IF ~Email_create(in.email).ok
              THEN proc' = [proc EXCEPT ![p] =
                              [here EXCEPT !.pc = "done", !.result = Email_create(in.email)]]
              ELSE proc' = [proc EXCEPT ![p] =
                              [here EXCEPT !.pc = "existsByEmail",
                                           !.local = [email |-> Email_create(in.email).value]]]
    /\ UNCHANGED <<users, roles, permissions, pure, failure>>

CreateUser_call(p) == CreateUser_start(p, "createUser", CreateUserInputs)

CreateUser_existsByEmail(p) ==
    /\ At(p, "createUser", "existsByEmail")
    /\ \E db \in DbOutcomes :
          LET in == proc[p].input
              local == proc[p].local
              emailExistsResult == UserRepository_existsByEmail(local.email, db)
              call == <<"userRepository.existsByEmail">>
          IN  /\ Observed(p, emailExistsResult)
              /\ IF ~emailExistsResult.ok
                     THEN Return(p, local, Fail(emailExistsResult.error), call)
                 ELSE IF emailExistsResult.value
                     THEN Return(p, local, Fail(EmailTaken(in.email, "create")), call)
                 ELSE IF ~Password_create(in.password).ok
                     THEN Return(p, local, Password_create(in.password), call)
                 ELSE IF ~RoleId_fromString(in.roleId).ok
                     THEN Return(p, local, RoleId_fromString(in.roleId), call)
                 ELSE Resume(p, "findRole", local, call)
    /\ UNCHANGED <<users, roles, permissions, pure>>

CreateUser_findRole(p) ==
    /\ At(p, "createUser", "findRole")
    /\ \E db \in DbOutcomes :
          LET in == proc[p].input
              local == proc[p].local
              roleResult == RoleRepositoryImpl_findById(in.roleId, db)
              call == <<"roleRepository.findById">>
          IN  /\ Observed(p, roleResult)
              /\ IF ~roleResult.ok
                     THEN Return(p, local, Fail(roleResult.error), call)
                 ELSE IF ~roleResult.found
                     THEN Return(p, local,
                                 Fail(NotFoundError("Role", IdString(in.roleId),
                                        [Context EXCEPT !.aggregateType = "Role",
                                                        !.aggregateId = in.roleId,
                                                        !.operation = "create_user"])),
                                 call)
                 ELSE Resume(p, "hash", local, call)
    /\ UNCHANGED <<users, roles, permissions, pure>>

CreateUser_hash(p) ==
    /\ At(p, "createUser", "hash")
    /\ LET in == proc[p].input
           local == proc[p].local
           userResult == User_create(NewUserId(p),
                                     [email |-> local.email,
                                      password |-> PasswordHashService_hash(in.password),
                                      firstName |-> in.firstName, lastName |-> in.lastName,
                                      roleId |-> in.roleId])
           call == <<"passwordHashService.hash">>
       IN  IF ~userResult.ok
               THEN Return(p, local, userResult, call)
           ELSE Resume(p, "save", [email |-> local.email, user |-> userResult.value], call)
    /\ UNCHANGED <<users, roles, permissions, pure, failure>>

\* the last await of CreateUser and of RegisterUser: userRepository.save
CreateUser_persist(p, op) ==
    /\ At(p, op, "save")
    /\ \E db \in DbOutcomes :
          LET user == proc[p].local.user
              saveResult == UserRepository_save(user, db)
              call == <<"userRepository.save">>
          IN  /\ Observed(p, saveResult)
              /\ IF ~saveResult.ok
                     THEN /\ Return(p, proc[p].local, saveResult, call)
                          /\ users' = users
                 ELSE /\ Return(p, proc[p].local, Ok(UserMapper_toDto(user)), call)
                      /\ users' = [id \in DOMAIN users \cup {user.id} |->
                                      IF id = user.id THEN user ELSE users[id]]
    /\ UNCHANGED <<roles, permissions, pure>>

CreateUser_save(p) == CreateUser_persist(p, "createUser")

DEFAULT_ROLE == S_USER

RegisterUserInputs ==
    {[email |-> in.email, password |-> in.password, firstName |-> in.firstName,
      lastName |-> in.lastName, roleId |-> None] :
        in \in {NewUser,
                [NewUser EXCEPT !.email = <<" ", "B", "@", "x", ".", "y">>],
                [NewUser EXCEPT !.password = <<"w">>],
                [NewUser EXCEPT !.lastName = <<"D", "2">>]}}

RegisterUser_call(p) == CreateUser_start(p, "registerUser", RegisterUserInputs)

\* a variant that hashes before the password policy is looked at
RegisterUser_existsByEmail_unchecked(p) ==
    /\ At(p, "registerUser", "existsByEmail")
    /\ \E db \in DbOutcomes :
          LET in == proc[p].input
              local == proc[p].local
              emailExistsResult == UserRepository_existsByEmail(local.email, db)
              call == <<"userRepository.existsByEmail">>
          IN  /\ Observed(p, emailExistsResult)
              /\ IF ~emailExistsResult.ok
                     THEN Return(p, local, Fail(emailExistsResult.error), call)
                 ELSE IF emailExistsResult.value
                     THEN Return(p, local, Fail(EmailTaken(in.email, "register")), call)
                 ELSE Resume(p, "hash", local, call)
    /\ UNCHANGED <<users, roles, permissions, pure>>

RegisterUser_existsByEmail(p) ==
    /\ At(p, "registerUser", "existsByEmail")
    /\ \E db \in DbOutcomes :
          LET in == proc[p].input
              local == proc[p].local
              emailExistsResult == UserRepository_existsByEmail(local.email, db)
              call == <<"userRepository.existsByEmail">>
          IN  /\ Observed(p, emailExistsResult)
              /\ IF ~emailExistsResult.ok
                     THEN Return(p, local, Fail(emailExistsResult.error), call)
                 ELSE IF emailExistsResult.value
                     THEN Return(p, local, Fail(EmailTaken(in.email, "register")), call)
                 ELSE IF ~Password_create(in.password).ok
                     THEN Return(p, local, Password_create(in.password), call)
                 ELSE Resume(p, "hash", local, call)
    /\ UNCHANGED <<users, roles, permissions, pure>>

\* a variant that keeps the plaintext
RegisterUser_hash_plain(p) ==
    /\ At(p, "registerUser", "hash")
    /\ Resume(p, "findByName",
              [email |-> proc[p].local.email, hashedPassword |-> proc[p].input.password],
              <<"passwordHashService.hash">>)
    /\ UNCHANGED <<users, roles, permissions, pure, failure>>

RegisterUser_hash(p) ==
    /\ At(p, "registerUser", "hash")
    /\ Resume(p, "findByName",
              [email |-> proc[p].local.email,
               hashedPassword |-> PasswordHashService_hash(proc[p].input.password)],
              <<"passwordHashService.hash">>)
    /\ UNCHANGED <<users, roles, permissions, pure, failure>>

RegisterUser_findByName(p) ==
    /\ At(p, "registerUser", "findByName")
    /\ \E db \in DbOutcomes :
          LET in == proc[p].input
              local == proc[p].local
              roleResult == RoleRepositoryImpl_findByName(DEFAULT_ROLE, db)
              userResult == User_create(NewUserId(p),
                                        [email |-> local.email,
                                         password |-> local.hashedPassword,
                                         firstName |-> in.firstName,
                                         lastName |-> in.lastName,
                                         roleId |-> roleResult.value.id])
              call == <<"roleRepository.findByName">>
          IN  /\ Observed(p, roleResult)
              /\ IF ~roleResult.ok
                     THEN Return(p, local, Fail(roleResult.error), call)
                 ELSE IF ~roleResult.found
                     THEN Return(p, local,
                                 \* aggregateId, the role's name here, is not kept
                                 Fail(NotFoundError("Role", DEFAULT_ROLE,
                                        [Context EXCEPT
                                           !.aggregateType = "Role",
                                           !.operation = "register",
                                           !.reason = "Default role not configured in system"])),
                                 call)
                 ELSE IF ~userResult.ok
                     THEN Return(p, local, userResult, call)
                 ELSE Resume(p, "save", [email |-> local.email, user |-> userResult.value],
                             call)
    /\ UNCHANGED <<users, roles, permissions, pure>>

RegisterUser_save(p) == CreateUser_persist(p, "registerUser")

-----------------------------------------------------------------------------
(* ListUsersUseCase, with the pagination helper *)

MinLimit == 1
MaxLimit == 100
DefaultLimit == 20

\* an optional number of the input
NoNumber == [given |-> FALSE, n |-> 0]
Number(n) == [given |-> TRUE, n |-> n]

\* PaginationService.validateParams: limit in 1..100 (default 20), offset at
\* least 0 (default 0)
PaginationService_validateParams(limit, offset) ==
    LET validLimit == IF limit.given THEN limit.n ELSE DefaultLimit
        validOffset == IF offset.given THEN offset.n ELSE 0
    IN  IF validLimit < MinLimit \/ validLimit > MaxLimit
            THEN Fail(ValidationError("limit", "Limit must be between 1 and 100"))
        ELSE IF validOffset < 0
            THEN Fail(ValidationError("offset", "Offset must be greater than or equal to 0"))
        ELSE Ok([limit |-> validLimit, offset |-> validOffset])

\* PaginationService.buildResponse
PaginationService_buildResponse(data, total, limit, offset) ==
    [data |-> data,
     pagination |-> [total |-> total, limit |-> limit, offset |-> offset,
                     hasMore |-> offset + limit < total,
                     currentPage |-> (offset \div limit) + 1,
                     totalPages |-> IF total = 0 THEN 0
                                    ELSE (total + limit - 1) \div limit]]

\* UserMapper.toDtoList
UserMapper_toDtoList(rows) == [i \in DOMAIN rows |-> UserMapper_toDto(rows[i])]

\* PermissionMapper.toDto
PermissionMapper_toDto(permission) ==
    [id |-> permission.id, resource |-> permission.resource,
     action |-> permission.action, description |-> permission.description]

\* the rows of findMany({ take: limit, skip: offset }) over rows in order
Page(rows, limit, offset) ==
    LET last == IF offset + limit < Len(rows) THEN offset + limit ELSE Len(rows)
    IN  [i \in 1..(IF last > offset THEN last - offset ELSE 0) |-> rows[offset + i]]

\* orderBy: { createdAt: 'desc' }
RoleIdOrder == <<"r-new2", "r-new1", "r-ops", "r-guest", "r-user", "r-admin">>

\* RoleRepositoryImpl.findAll
RoleRepositoryImpl_findAll(limit, offset, db) ==
    LET ids == Page(SelectSeq(RoleIdOrder, LAMBDA id : id \in DOMAIN roles), limit, offset)
    IN  IF db = "error"
            THEN Fail([DatabaseError("Failed to find roles", "findAll")
                         EXCEPT !.cause = "driver"])
        ELSE Ok([i \in DOMAIN ids |-> RoleRepositoryImpl_mapRole(roles[ids[i]])])

\* RoleRepositoryImpl.count
RoleRepositoryImpl_count(db) ==
    IF db = "error"
        THEN Fail([DatabaseError("Failed to count roles", "count") EXCEPT !.cause = "driver"])
    ELSE Ok(Cardinality(DOMAIN roles))

\* PermissionRepositoryImpl.findAll
PermissionRepositoryImpl_findAll(limit, offset, db) ==
    LET ids == Page(SelectSeq([i \in 1..Len(PermissionIdOrder) |->
                                 PermissionIdOrder[Len(PermissionIdOrder) + 1 - i]],
                              LAMBDA id : id \in DOMAIN permissions),
                    limit, offset)
    IN  IF db = "error"
            THEN Fail([DatabaseError("Failed to find permissions", "findAll")
                         EXCEPT !.cause = "driver"])
        ELSE Ok([i \in DOMAIN ids |-> Permission_reconstitute(permissions[ids[i]])])

\* PermissionRepositoryImpl.count
PermissionRepositoryImpl_count(db) ==
    IF db = "error"
        THEN Fail([DatabaseError("Failed to count permissions", "count")
                     EXCEPT !.cause = "driver"])
    ELSE Ok(Cardinality(DOMAIN permissions))

\* The three List use cases are one text over three repositories and mappers.
ListOps == {"listUsers", "listRoles", "listPermissions"}

ListFindAll(op, limit, offset, db) ==
    CASE op = "listUsers" -> UserRepository_findAll(limit, offset, db)
      [] op = "listRoles" -> RoleRepositoryImpl_findAll(limit, offset, db)
      [] op = "listPermissions" -> PermissionRepositoryImpl_findAll(limit, offset, db)

ListCount(op, db) ==
    CASE op = "listUsers" -> UserRepository_count(db)
      [] op = "listRoles" -> RoleRepositoryImpl_count(db)
      [] op = "listPermissions" -> PermissionRepositoryImpl_count(db)

ListToDtoList(op, rows) ==
    CASE op = "listUsers" -> UserMapper_toDtoList(rows)
      [] op = "listRoles" -> [i \in DOMAIN rows |-> RoleMapper_toDto(rows[i])]
      [] op = "listPermissions" -> [i \in DOMAIN rows |-> PermissionMapper_toDto(rows[i])]

ListFindAllCall(op) ==
    CASE op = "listUsers" -> "userRepository.findAll"
      [] op = "listRoles" -> "roleRepository.findAll"
      [] op = "listPermissions" -> "permissionRepository.findAll"

ListCountCall(op) ==
    CASE op = "listUsers" -> "userRepository.count"
      [] op = "listRoles" -> "roleRepository.count"
      [] op = "listPermissions" -> "permissionRepository.count"

\* a variant that queries whatever the validation said
List_start_unvalidated(p, op, limits, offsets) ==
    /\ proc[p].op = "idle"
    /\ \E limit \in limits, offset \in offsets :
          proc' = [proc EXCEPT ![p] =
                      [Idle EXCEPT !.op = op, !.pc = "all",
                                   !.input = [limit |-> limit, offset |-> offset],
                                   !.local = [params |->
                                                 [limit |-> IF limit.given THEN limit.n
                                                            ELSE DefaultLimit,
                                                  offset |-> IF offset.given THEN offset.n
                                                             ELSE 0],
                                              read |-> {}]]]
    /\ UNCHANGED <<users, roles, permissions, pure, failure>>

\* execute(limit, offset) up to Promise.all
List_start(p, op, limits, offsets) ==
    /\ proc[p].op = "idle"
    /\ \E limit \in limits, offset \in offsets :
          LET here == [Idle EXCEPT !.op = op,
                                   !.input = [limit |-> limit, offset |-> offset]]
              paramsResult == PaginationService_validateParams(limit, offset)
          IN  IF ~paramsResult.ok
              THEN proc' = [proc EXCEPT ![p] =
                              [here EXCEPT !.pc = "done", !.result = paramsResult]]
              ELSE proc' = [proc EXCEPT ![p] =
                              [here EXCEPT !.pc = "all",
                                           !.local = [params |-> paramsResult.value,
                                                      read |-> {}]]]
    /\ UNCHANGED <<users, roles, permissions, pure, failure>>

\* a variant that hands limit and offset to buildResponse in the other order
List_join_swapped(p, op, local, call) ==
    IF local.read # {"findAll", "count"}
        THEN Resume(p, "all", local, call)
    ELSE IF ~local.rowsResult.ok
        THEN Return(p, local, Fail(local.rowsResult.error), call)
    ELSE IF ~local.countResult.ok
        THEN Return(p, local, Fail(local.countResult.error), call)
    ELSE Return(p, local,
                Ok(PaginationService_buildResponse(
                     ListToDtoList(op, local.rowsResult.value),
                     local.countResult.value, local.params.offset + 1, local.params.limit)),
                call)

\* a variant in which, of two failed reads, the one that came in first decides
List_join_first(p, op, local, call) ==
    IF local.read # {"findAll", "count"}
        THEN Resume(p, "all", local, call)
    ELSE IF ~local.rowsResult.ok /\ ~local.countResult.ok
        THEN Return(p, local,
                    Fail(IF call = <<ListFindAllCall(op)>> THEN local.countResult.error
                         ELSE local.rowsResult.error),
                    call)
    ELSE IF ~local.rowsResult.ok
        THEN Return(p, local, Fail(local.rowsResult.error), call)
    ELSE IF ~local.countResult.ok
        THEN Return(p, local, Fail(local.countResult.error), call)
    ELSE Return(p, local,
                Ok(PaginationService_buildResponse(
                     ListToDtoList(op, local.rowsResult.value),
                     local.countResult.value, local.params.limit, local.params.offset)),
                call)

\* Promise.all joined: both reads are in
List_join(p, op, local, call) ==
    IF local.read # {"findAll", "count"}
        THEN Resume(p, "all", local, call)
    ELSE IF ~local.rowsResult.ok
        THEN Return(p, local, Fail(local.rowsResult.error), call)
    ELSE IF ~local.countResult.ok
        THEN Return(p, local, Fail(local.countResult.error), call)
    ELSE Return(p, local,
                Ok(PaginationService_buildResponse(
                     ListToDtoList(op, local.rowsResult.value),
                     local.countResult.value, local.params.limit, local.params.offset)),
                call)

\* the two reads of Promise.all are served in either order
List_findAll(p, op) ==
    /\ At(p, op, "all")
    /\ "findAll" \notin proc[p].local.read
    /\ \E db \in DbOutcomes :
          LET local == proc[p].local
              rowsResult == ListFindAll(op, local.params.limit, local.params.offset, db)
          IN  /\ Observed(p, rowsResult)
              /\ List_join(p, op,
                     [params |-> local.params, read |-> local.read \cup {"findAll"},
                      rowsResult |-> rowsResult,
                      countResult |-> IF "count" \in local.read THEN local.countResult
                                      ELSE Fail(NoError)],
                     <<ListFindAllCall(op)>>)
    /\ UNCHANGED <<users, roles, permissions, pure>>

List_count(p, op) ==
    /\ At(p, op, "all")
    /\ "count" \notin proc[p].local.read
    /\ \E db \in DbOutcomes :
          LET local == proc[p].local
              countResult == ListCount(op, db)
          IN  /\ Observed(p, countResult)
              /\ List_join(p, op,
                     [params |-> local.params, read |-> local.read \cup {"count"},
                      rowsResult |-> IF "findAll" \in local.read THEN local.rowsResult
                                     ELSE Fail(NoError),
                      countResult |-> countResult],
                     <<ListCountCall(op)>>)
    /\ UNCHANGED <<users, roles, permissions, pure>>

ListUsers_call(p) ==
    List_start(p, "listUsers", {NoNumber, Number(0), Number(1)}, {NoNumber, Number(1)})

ListUsers_findAll(p) == List_findAll(p, "listUsers")

ListUsers_count(p) == List_count(p, "listUsers")

\* the limits and offsets of the paged requests
LimitInputs == {NoNumber, Number(0), Number(1), Number(2), Number(101)}
OffsetInputs == {NoNumber, Number(-1), Number(1), Number(3)}

ListUsers_callPaged(p) == List_start(p, "listUsers", LimitInputs, OffsetInputs)

ListRoles_call(p) == List_start(p, "listRoles", LimitInputs, OffsetInputs)

ListRoles_findAll(p) == List_findAll(p, "listRoles")

ListRoles_count(p) == List_count(p, "listRoles")

ListPermissions_call(p) == List_start(p, "listPermissions", LimitInputs, OffsetInputs)

ListPermissions_findAll(p) == List_findAll(p, "listPermissions")

ListPermissions_count(p) == List_count(p, "listPermissions")

-----------------------------------------------------------------------------
(* LoginUserUseCase *)

\* IJwtService.sign: the token stands for the payload it signs
JwtService_sign(payload) == [jwt |-> payload]

LoginEmailInputs ==
    {E_admin, <<" ", "B", "@", "x", ".", "y">>, <<"n", "@", "x", ".", "y">>,
     <<"b", "@", "x">>}
LoginPasswordInputs == {PW_bob, PW_new}

LoginContext(reason, email) ==
    [Context EXCEPT !.aggregateType = "User", !.operation = "login",
                    !.reason = reason, !.metaValue = email]

LoginUser_call(p) ==
    /\ proc[p].op = "idle"
    /\ \E email \in LoginEmailInputs, password \in LoginPasswordInputs :
          LET here == [Idle EXCEPT !.op = "loginUser",
                                   !.input = [email |-> email, password |-> password]]
          IN  IF ~Email_create(email).ok
              THEN proc' = [proc EXCEPT ![p] =
                              [here EXCEPT !.pc = "done", !.result = Email_create(email)]]
              ELSE proc' = [proc EXCEPT ![p] =
                              [here EXCEPT !.pc = "findByEmail",
                                           !.local = [email |-> Email_create(email).value]]]
    /\ UNCHANGED <<users, roles, permissions, pure, failure>>

\* a variant that verifies the password before it looks at isActive
LoginUser_findByEmail_late(p) ==
    /\ At(p, "loginUser", "findByEmail")
    /\ \E db \in DbOutcomes :
          LET in == proc[p].input
              userResult == UserRepository_findByEmail(proc[p].local.email, db)
              call == <<"userRepository.findByEmail">>
          IN  /\ Observed(p, userResult)
              /\ IF ~userResult.ok
                     THEN Return(p, proc[p].local, Fail(userResult.error), call)
                 ELSE IF ~userResult.found
                     THEN Return(p, proc[p].local,
                                 Fail(UnauthorizedError("Invalid credentials",
                                        LoginContext("user_not_found", in.email))),
                                 call)
                 ELSE Resume(p, "compare", [user |-> userResult.value], call)
    /\ UNCHANGED <<users, roles, permissions, pure>>

\* steps 2 to 4: find the user; it must exist and be active
LoginUser_findByEmail(p) ==
    /\ At(p, "loginUser", "findByEmail")
    /\ \E db \in DbOutcomes :
          LET in == proc[p].input
              userResult == UserRepository_findByEmail(proc[p].local.email, db)
              call == <<"userRepository.findByEmail">>
          IN  /\ Observed(p, userResult)
              /\ IF ~userResult.ok
                     THEN Return(p, proc[p].local, Fail(userResult.error), call)
                 ELSE IF ~userResult.found
                     THEN Return(p, proc[p].local,
                                 Fail(UnauthorizedError("Invalid credentials",
                                        LoginContext("user_not_found", in.email))),
                                 call)
                 ELSE IF ~User_canAuthenticate(userResult.value)
                     THEN Return(p, [user |-> userResult.value],
                                 Fail(UnauthorizedError("Invalid credentials",
                                        [LoginContext("account_inactive", in.email)
                                           EXCEPT !.aggregateId = userResult.value.id])),
                                 call)
                 ELSE Resume(p, "compare", [user |-> userResult.value], call)
    /\ UNCHANGED <<users, roles, permissions, pure>>

\* steps 5 to 7: verify the password, sign the token, map the user
LoginUser_compare(p) ==
    /\ At(p, "loginUser", "compare")
    /\ LET in == proc[p].input
           user == proc[p].local.user
           isPasswordValid == PasswordHashService_compare(in.password, user.password)
       IN  IF ~isPasswordValid
               THEN Return(p, proc[p].local,
                           Fail(UnauthorizedError("Invalid credentials",
                                  [LoginContext("invalid_password", in.email)
                                     EXCEPT !.aggregateId = user.id])),
                           <<"passwordHashService.compare">>)
           ELSE Return(p, proc[p].local,
                       Ok([accessToken |-> JwtService_sign([userId |-> user.id]),
                           user |-> UserMapper_toDto(user)]),
                       <<"passwordHashService.compare", "jwtService.sign">>)
    /\ UNCHANGED <<users, roles, permissions, pure, failure>>

-----------------------------------------------------------------------------
(* The role use cases: CreateRoleUseCase, UpdateRoleUseCase,               *)
(* DeleteRoleUseCase                                                       *)

\* an optional permissionIds array of the input
NoIds == [given |-> FALSE, ids |-> <<>>]
Ids(ids) == [given |-> TRUE, ids |-> ids]

GonePermissionId == "p-gone"        \* a well-formed id no permission has

\* parsePermissionIds: the first id that is not a UUID fails the list
RECURSIVE ParsePermissionIds(_)
ParsePermissionIds(permissionIds) ==
    IF Len(permissionIds) = 0 THEN Ok(<<>>)
    ELSE IF ~PermissionId_fromString(Head(permissionIds)).ok
        THEN PermissionId_fromString(Head(permissionIds))
    ELSE IF ~ParsePermissionIds(Tail(permissionIds)).ok
        THEN ParsePermissionIds(Tail(permissionIds))
    ELSE Ok(<<Head(permissionIds)>> \o ParsePermissionIds(Tail(permissionIds)).value)

\* ensurePermissionsExist, after findByIds returned permissionsResult
EnsurePermissionsExist(permissionIds, permissionsResult) ==
    IF ~permissionsResult.ok THEN permissionsResult
    ELSE IF Len(permissionsResult.value) # Len(permissionIds)
        THEN Fail(NotFoundError("Permission",
                    SelectSeq(permissionIds,
                              LAMBDA id : \A i \in DOMAIN permissionsResult.value :
                                             permissionsResult.value[i].id # id),
                    [Context EXCEPT !.aggregateType = "Permission"]))
    ELSE Ok(TRUE)

RoleNameConflict(name, operation) ==
    ConflictError("Role", "name", name, "Role name already exists",
                  [Context EXCEPT !.aggregateType = "Role", !.operation = operation,
                                  !.metaValue = name])

RoleNotFound(roleId) ==
    NotFoundError("Role", IdString(roleId),
                  [Context EXCEPT !.reason = "Role not found with provided ID"])

NewRoleId(p) == IF p = 1 THEN "r-new1" ELSE "r-new2"

CreateRoleInputs ==
    {[name |-> <<"q", "a">>, description |-> S_desc, permissionIds |-> NoIds],
     [name |-> <<" ", "Q", "A">>, description |-> S_desc,
      permissionIds |-> Ids(<<"p-users-read">>)],
     [name |-> <<"a", "d", "m", "i", "n">>, description |-> S_desc, permissionIds |-> NoIds],
     [name |-> <<"q", "-">>, description |-> S_desc, permissionIds |-> NoIds],
     [name |-> <<"q", "a">>, description |-> <<" ">>, permissionIds |-> NoIds],
     [name |-> <<"q", "a">>, description |-> S_desc,
      permissionIds |-> Ids(<<"p-users-read", GonePermissionId>>)],
     [name |-> <<"q", "a">>, description |-> S_desc,
      permissionIds |-> Ids(<<"not-a-uuid">>)],
     [name |-> <<"q", "a">>, description |-> S_desc,
      permissionIds |-> Ids(<<"p-all", "p-all">>)]}

CreateRole_call(p) ==
    /\ NewRoleId(p) \notin DOMAIN roles
    /\ \E in \in CreateRoleInputs : Call(p, "createRole", "existsByName", in)
    /\ UNCHANGED <<users, roles, permissions, pure, failure>>

\* Role.create and what follows it, up to the await of save
CreateRole_create(p, permissionIds, call) ==
    LET in == proc[p].input
        roleResult == Role_create(NewRoleId(p),
                                  [name |-> in.name, description |-> in.description,
                                   permissionIds |-> permissionIds])
    IN  IF ~roleResult.ok
            THEN Return(p, <<>>, roleResult, call)
        ELSE Resume(p, "save", [role |-> roleResult.value], call)

CreateRole_existsByName(p) ==
    /\ At(p, "createRole", "existsByName")
    /\ \E db \in DbOutcomes :
          LET in == proc[p].input
              existsResult == RoleRepositoryImpl_existsByName(in.name, db)
              permissionVoResult == ParsePermissionIds(in.permissionIds.ids)
              call == <<"roleRepository.existsByName">>
          IN  /\ Observed(p, existsResult)
              /\ IF ~existsResult.ok
                     THEN Return(p, <<>>, Fail(existsResult.error), call)
                 ELSE IF existsResult.value
                     THEN Return(p, <<>>, Fail(RoleNameConflict(in.name, "create")), call)
                 ELSE IF ~permissionVoResult.ok
                     THEN Return(p, <<>>, permissionVoResult, call)
                 ELSE IF Len(permissionVoResult.value) = 0
                     THEN CreateRole_create(p, <<>>, call)
                 ELSE Resume(p, "findByIds", [ids |-> permissionVoResult.value], call)
    /\ UNCHANGED <<users, roles, permissions, pure>>

CreateRole_findByIds(p) ==
    /\ At(p, "createRole", "findByIds")
    /\ \E db \in DbOutcomes :
          LET ids == proc[p].local.ids
              permissionsExistResult ==
                  EnsurePermissionsExist(ids, PermissionRepositoryImpl_findByIds(ids, db))
              call == <<"permissionRepository.findByIds">>
          IN  /\ Observed(p, PermissionRepositoryImpl_findByIds(ids, db))
              /\ IF ~permissionsExistResult.ok
                     THEN Return(p, proc[p].local, permissionsExistResult, call)
                 ELSE CreateRole_create(p, ids, call)
    /\ UNCHANGED <<users, roles, permissions, pure>>

CreateRole_save(p) ==
    /\ At(p, "createRole", "save")
    /\ \E db \in DbOutcomes :
          LET role == proc[p].local.role
              saveResult == RoleRepositoryImpl_save(role, db)
              call == <<"roleRepository.save">>
          IN  /\ Observed(p, saveResult)
              /\ IF ~saveResult.ok
                     THEN /\ Return(p, proc[p].local, saveResult, call)
                          /\ roles' = roles
                 ELSE /\ Return(p, proc[p].local, Ok(RoleMapper_toDto(role)), call)
                      /\ roles' = [id \in DOMAIN roles \cup {role.id} |->
                                      IF id = role.id THEN RoleRepositoryImpl_savedRow(role)
                                      ELSE roles[id]]
    /\ UNCHANGED <<users, permissions, pure>>

RoleIdInputs == {"r-admin", "r-ops", "r-gone"} \cup BadIds

NoRoleUpdate == [name |-> Undefined, description |-> Undefined, permissionIds |-> NoIds]

UpdateRoleInputs ==
    {NoRoleUpdate,
     [NoRoleUpdate EXCEPT !.name = <<"o", "p", "s">>],
     [NoRoleUpdate EXCEPT !.name = <<"u", "s", "e", "r">>],
     [NoRoleUpdate EXCEPT !.name = <<"o", "-">>],
     [NoRoleUpdate EXCEPT !.description = <<"e", " ">>],
     [NoRoleUpdate EXCEPT !.permissionIds = Ids(<<>>)],
     [NoRoleUpdate EXCEPT !.permissionIds = Ids(<<"p-users-read">>)],
     [NoRoleUpdate EXCEPT !.permissionIds = Ids(<<GonePermissionId>>)]}

\* if (role.isSystem)
RoleGuard(role) == Role_isSystem_truthy(role)

RoleForbidden(role, operation, reason) ==
    ForbiddenError(operation, "Role", reason,
                   [Context EXCEPT !.aggregateType = "Role", !.aggregateId = role.id,
                                   !.operation = operation])

\* the code of UpdateRoleUseCase from the permissionIds section on
UpdateRole_permissionsSection(p, role, call) ==
    LET in == proc[p].input.in
        permissionIdsResult == ParsePermissionIds(in.permissionIds.ids)
    IN  IF ~in.permissionIds.given
            THEN Resume(p, "update", [role |-> role], call)
        ELSE IF ~permissionIdsResult.ok
            THEN Return(p, [role |-> role], permissionIdsResult, call)
        ELSE IF Len(permissionIdsResult.value) = 0
            THEN Return(p, [role |-> role],
                        Role_replacePermissions(role, permissionIdsResult.value).result,
                        call)
        ELSE Resume(p, "findByIds", [role |-> role], call)

\* the code of UpdateRoleUseCase from the description section on
UpdateRole_descriptionSection(p, role, call) ==
    LET in == proc[p].input.in
        changed == Role_changeDescription(role, in.description)
    IN  IF Truthy(in.description)
        THEN IF ~changed.result.ok
             THEN Return(p, [role |-> role], changed.result, call)
             ELSE UpdateRole_permissionsSection(p, changed.role, call)
        ELSE UpdateRole_permissionsSection(p, role, call)

UpdateRole_call(p) ==
    /\ proc[p].op = "idle"
    /\ \E roleId \in RoleIdInputs, in \in UpdateRoleInputs :
          LET here == [Idle EXCEPT !.op = "updateRole",
                                   !.input = [roleId |-> roleId, in |-> in]]
          IN  IF ~RoleId_fromString(roleId).ok
              THEN proc' = [proc EXCEPT ![p] =
                              [here EXCEPT !.pc = "done",
                                           !.result = RoleId_fromString(roleId)]]
              ELSE proc' = [proc EXCEPT ![p] = [here EXCEPT !.pc = "findById"]]
    /\ UNCHANGED <<users, roles, permissions, pure, failure>>

UpdateRole_findById(p) ==
    /\ At(p, "updateRole", "findById")
    /\ \E db \in DbOutcomes :
          LET roleId == proc[p].input.roleId
              in == proc[p].input.in
              roleResult == RoleRepositoryImpl_findById(roleId, db)
              call == <<"roleRepository.findById">>
          IN  /\ Observed(p, roleResult)
              /\ IF ~roleResult.ok
                     THEN Return(p, <<>>, Fail(roleResult.error), call)
                 ELSE IF ~roleResult.found
                     THEN Return(p, <<>>, Fail(RoleNotFound(roleId)), call)
                 ELSE IF RoleGuard(roleResult.value)
                     THEN Return(p, [role |-> roleResult.value],
                                 Fail(RoleForbidden(roleResult.value, "update",
                                                    "System roles cannot be edited")),
                                 call)
                 ELSE IF Truthy(in.name) /\ ToUpperCase(in.name) # roleResult.value.name
                     THEN Resume(p, "existsByName", [role |-> roleResult.value], call)
                 ELSE UpdateRole_descriptionSection(p, roleResult.value, call)
    /\ UNCHANGED <<users, roles, permissions, pure>>

UpdateRole_existsByName(p) ==
    /\ At(p, "updateRole", "existsByName")
    /\ \E db \in DbOutcomes :
          LET role == proc[p].local.role
              in == proc[p].input.in
              existsResult == RoleRepositoryImpl_existsByName(in.name, db)
              changed == Role_changeName(role, in.name)
              call == <<"roleRepository.existsByName">>
          IN  /\ Observed(p, existsResult)
              /\ IF ~existsResult.ok
                     THEN Return(p, proc[p].local, Fail(existsResult.error), call)
                 ELSE IF existsResult.value
                     THEN Return(p, proc[p].local, Fail(RoleNameConflict(in.name, "update")),
                                 call)
                 ELSE IF ~changed.result.ok
                     THEN Return(p, proc[p].local, changed.result, call)
                 ELSE UpdateRole_descriptionSection(p, changed.role, call)
    /\ UNCHANGED <<users, roles, permissions, pure>>

UpdateRole_findByIds(p) ==
    /\ At(p, "updateRole", "findByIds")
    /\ \E db \in DbOutcomes :
          LET role == proc[p].local.role
              ids == proc[p].input.in.permissionIds.ids
              permissionsExistResult ==
                  EnsurePermissionsExist(ids, PermissionRepositoryImpl_findByIds(ids, db))
              replaceResult == Role_replacePermissions(role, ids)
              call == <<"permissionRepository.findByIds">>
          IN  /\ Observed(p, PermissionRepositoryImpl_findByIds(ids, db))
              /\ IF ~permissionsExistResult.ok
                     THEN Return(p, proc[p].local, permissionsExistResult, call)
                 ELSE IF ~replaceResult.result.ok
                     THEN Return(p, proc[p].local, replaceResult.result, call)
                 ELSE Resume(p, "update", [role |-> replaceResult.role], call)
    /\ UNCHANGED <<users, roles, permissions, pure>>

UpdateRole_update(p) ==
    /\ At(p, "updateRole", "update")
    /\ \E db \in DbOutcomes :
          LET role == proc[p].local.role
              updateResult == RoleRepositoryImpl_update(role, db)
              call == <<"roleRepository.update">>
          IN  /\ Observed(p, updateResult)
              /\ IF ~updateResult.ok
                     THEN /\ Return(p, proc[p].local, updateResult, call)
                          /\ roles' = roles
                 ELSE /\ Return(p, proc[p].local, Ok(RoleMapper_toDto(role)), call)
                      /\ roles' = [roles EXCEPT ![role.id] = RoleRepositoryImpl_updatedRow(role)]
    /\ UNCHANGED <<users, permissions, pure>>

DeleteRole_call(p) ==
    /\ proc[p].op = "idle"
    /\ \E roleId \in RoleIdInputs :
          LET here == [Idle EXCEPT !.op = "deleteRole", !.input = [roleId |-> roleId]]
          IN  IF ~RoleId_fromString(roleId).ok
              THEN proc' = [proc EXCEPT ![p] =
                              [here EXCEPT !.pc = "done",
                                           !.result = RoleId_fromString(roleId)]]
              ELSE proc' = [proc EXCEPT ![p] = [here EXCEPT !.pc = "findById"]]
    /\ UNCHANGED <<users, roles, permissions, pure, failure>>

DeleteRole_findById(p) ==
    /\ At(p, "deleteRole", "findById")
    /\ \E db \in DbOutcomes :
          LET roleId == proc[p].input.roleId
              roleResult == RoleRepositoryImpl_findById(roleId, db)
              call == <<"roleRepository.findById">>
          IN  /\ Observed(p, roleResult)
              /\ IF ~roleResult.ok
                     THEN Return(p, <<>>, Fail(roleResult.error), call)
                 ELSE IF ~roleResult.found
                     THEN Return(p, <<>>, Fail(RoleNotFound(roleId)), call)
                 ELSE IF RoleGuard(roleResult.value)
                     THEN Return(p, [role |-> roleResult.value],
                                 Fail(RoleForbidden(roleResult.value, "delete",
                                                    "System roles cannot be deleted")),
                                 call)
                 ELSE Resume(p, "delete", [role |-> roleResult.value], call)
    /\ UNCHANGED <<users, roles, permissions, pure>>

DeleteRole_delete(p) ==
    /\ At(p, "deleteRole", "delete")
    /\ \E db \in DbOutcomes :
          LET roleId == proc[p].input.roleId
              deleteResult == RoleRepositoryImpl_delete(roleId, db)
              call == <<"roleRepository.delete">>
          IN  /\ Observed(p, deleteResult)
              /\ IF ~deleteResult.ok
                     THEN /\ Return(p, proc[p].local, deleteResult, call)
                          /\ roles' = roles
                 ELSE IF ~deleteResult.value
                     THEN /\ Return(p, proc[p].local, Fail(RoleNotFound(roleId)), call)
                          /\ roles' = roles
                 ELSE /\ Return(p, proc[p].local, Ok(Undefined), call)
                      /\ roles' = Without(roles, roleId)
    /\ UNCHANGED <<users, permissions, pure>>

-----------------------------------------------------------------------------
(* DeleteUserUseCase *)

UserNotFound(userId) ==
    NotFoundError("User", IdString(userId),
                  [Context EXCEPT !.reason = "User not found with provided ID"])

DeleteUserInputs == {"u-bob", GhostUserId} \cup BadIds

DeleteUser_call(p) ==
    /\ proc[p].op = "idle"
    /\ \E userId \in DeleteUserInputs :
          LET here == [Idle EXCEPT !.op = "deleteUser", !.input = [userId |-> userId]]
          IN  IF ~UserId_fromString(userId).ok
              THEN proc' = [proc EXCEPT ![p] =
                              [here EXCEPT !.pc = "done",
                                           !.result = UserId_fromString(userId)]]
              ELSE proc' = [proc EXCEPT ![p] = [here EXCEPT !.pc = "delete"]]
    /\ UNCHANGED <<users, roles, permissions, pure, failure>>

\* a variant that reports success whatever the repository's delete reports
DeleteUser_delete_blind(p) ==
    /\ At(p, "deleteUser", "delete")
    /\ \E db \in DbOutcomes :
          LET userId == proc[p].input.userId
              deleteResult == UserRepository_delete(userId, db)
              call == <<"userRepository.delete">>
          IN  /\ Observed(p, deleteResult)
              /\ IF ~deleteResult.ok
                     THEN /\ Return(p, <<>>, Fail(deleteResult.error), call)
                          /\ users' = users
                 ELSE /\ Return(p, <<>>, Ok(Undefined), call)
                      /\ users' = Without(users, userId)
    /\ UNCHANGED <<roles, permissions, pure>>

DeleteUser_delete(p) ==
    /\ At(p, "deleteUser", "delete")
    /\ \E db \in DbOutcomes :
          LET userId == proc[p].input.userId
              deleteResult == UserRepository_delete(userId, db)
              call == <<"userRepository.delete">>
          IN  /\ Observed(p, deleteResult)
              /\ IF ~deleteResult.ok
                     THEN /\ Return(p, <<>>, Fail(deleteResult.error), call)
                          /\ users' = users
                 ELSE IF ~deleteResult.value
                     THEN /\ Return(p, <<>>, Fail(UserNotFound(userId)), call)
                          /\ users' = users
                 ELSE /\ Return(p, <<>>, Ok(Undefined), call)
                      /\ users' = Without(users, userId)
    /\ UNCHANGED <<roles, permissions, pure>>

-----------------------------------------------------------------------------
(* GetRoleByIdUseCase and GetPermissionByIdUseCase *)

GetRoleById_call(p) ==
    /\ proc[p].op = "idle"
    /\ \E roleId \in RoleIdInputs \cup {""} :
          LET here == [Idle EXCEPT !.op = "getRoleById", !.input = [roleId |-> roleId]]
          IN  IF ~RoleId_fromString(roleId).ok
              THEN proc' = [proc EXCEPT ![p] =
                              [here EXCEPT !.pc = "done",
                                           !.result = RoleId_fromString(roleId)]]
              ELSE proc' = [proc EXCEPT ![p] = [here EXCEPT !.pc = "findById"]]
    /\ UNCHANGED <<users, roles, permissions, pure, failure>>

GetRoleById_findById(p) ==
    /\ At(p, "getRoleById", "findById")
    /\ \E db \in DbOutcomes :
          LET roleId == proc[p].input.roleId
              roleResult == RoleRepositoryImpl_findById(roleId, db)
              call == <<"roleRepository.findById">>
          IN  /\ Observed(p, roleResult)
              /\ IF ~roleResult.ok
                     THEN Return(p, <<>>, Fail(roleResult.error), call)
                 ELSE IF ~roleResult.found
                     THEN Return(p, <<>>, Fail(RoleNotFound(roleId)), call)
                 ELSE Return(p, [role |-> roleResult.value],
                             Ok(RoleMapper_toDto(roleResult.value)), call)
    /\ UNCHANGED <<users, roles, permissions, pure>>

\* a variant that looks the permission up under the string it was given
GetPermissionById_call_unparsed(p) ==
    /\ proc[p].op = "idle"
    /\ \E permissionId \in PermissionIds \cup {GonePermissionId} \cup BadIds \cup {""} :
          proc' = [proc EXCEPT ![p] =
                      [Idle EXCEPT !.op = "getPermissionById", !.pc = "findById",
                                   !.input = [permissionId |-> permissionId]]]
    /\ UNCHANGED <<users, roles, permissions, pure, failure>>

GetPermissionById_call(p) ==
    /\ proc[p].op = "idle"
    /\ \E permissionId \in PermissionIds \cup {GonePermissionId} \cup BadIds \cup {""} :
          LET here == [Idle EXCEPT !.op = "getPermissionById",
                                   !.input = [permissionId |-> permissionId]]
          IN  IF ~PermissionId_fromString(permissionId).ok
              THEN proc' = [proc EXCEPT ![p] =
                              [here EXCEPT !.pc = "done",
                                           !.result = PermissionId_fromString(permissionId)]]
              ELSE proc' = [proc EXCEPT ![p] = [here EXCEPT !.pc = "findById"]]
    /\ UNCHANGED <<users, roles, permissions, pure, failure>>

GetPermissionById_findById(p) ==
    /\ At(p, "getPermissionById", "findById")
    /\ \E db \in DbOutcomes :
          LET permissionId == proc[p].input.permissionId
              permissionResult == PermissionRepositoryImpl_findById(permissionId, db)
              call == <<"permissionRepository.findById">>
          IN  /\ Observed(p, permissionResult)
              /\ IF ~permissionResult.ok
                     THEN Return(p, <<>>, Fail(permissionResult.error), call)
                 ELSE IF ~permissionResult.found
                     THEN Return(p, <<>>,
                                 Fail(NotFoundError("Permission", IdString(permissionId),
                                        [Context EXCEPT
                                           !.reason = "Permission not found with provided ID"])),
                                 call)
                 ELSE Return(p, [permission |-> permissionResult.value],
                             Ok(PermissionMapper_toDto(permissionResult.value)), call)
    /\ UNCHANGED <<users, roles, permissions, pure>>

\* PermissionRepositoryImpl.delete, called by an administrator's request: the
\* row goes, and with it the role-permission rows that connect it
PermissionRepositoryImpl_delete ==
    /\ \E id \in DOMAIN permissions :
          /\ permissions' = Without(permissions, id)
          /\ roles' = [r \in DOMAIN roles |->
                          [roles[r] EXCEPT !.permissionIds =
                              SelectSeq(@, LAMBDA x : x # id)]]
    /\ UNCHANGED <<users, proc, pure, failure>>

-----------------------------------------------------------------------------
(* The entity-level specification of Permission: a permission is built by  *)
(* Permission.create or Permission.reconstitute, then asked one grants.    *)

\* the characters raw inputs are drawn from
GrantChars == {"a", "A", " ", "*"}
RawStrings == StringsOver(GrantChars, MaxLen)

\* what a stored permission row may hold in resource or action: the seeded
\* tokens, and values no factory validated
StoredTokens == {<<"*">>, <<"a">>, <<"a", "a">>, <<"A">>, <<" ", "a">>, <<"a", "*">>}

DescriptionInputs == {<<>>, <<" ">>, <<"d">>}

NoPermission == [id |-> None, resource |-> <<>>, action |-> <<>>, description |-> <<>>]
NoCall == [resource |-> <<>>, action |-> <<>>, result |-> FALSE]
PureInit ==
    [how |-> "none", perm |-> NoPermission, error |-> NoError,
     called |-> FALSE, call |-> NoCall]

PermissionCreate ==
    /\ pure.how = "none"
    /\ \E resource \in RawStrings, action \in RawStrings,
          description \in DescriptionInputs :
          LET r == Permission_create("p-new",
                       [resource |-> resource, action |-> action,
                        description |-> description])
          IN  pure' = IF r.ok
                      THEN [pure EXCEPT !.how = "create", !.perm = r.value]
                      ELSE [pure EXCEPT !.how = "rejected", !.error = r.error]
    /\ UNCHANGED <<users, roles, permissions, proc, failure>>

PermissionReconstitute ==
    /\ pure.how = "none"
    /\ \E resource \in StoredTokens, action \in StoredTokens :
          pure' = [pure EXCEPT
                     !.how = "reconstitute",
                     !.perm = Permission_reconstitute(
                                  [id |-> "p-old", resource |-> resource,
                                   action |-> action, description |-> <<"d">>])]
    /\ UNCHANGED <<users, roles, permissions, proc, failure>>

PermissionGrants ==
    /\ pure.how \in {"create", "reconstitute"}
    /\ ~pure.called
    /\ \E resource \in RawStrings, action \in RawStrings :
          pure' = [pure EXCEPT
                     !.called = TRUE,
                     !.call = [resource |-> resource, action |-> action,
                               result |-> Permission_grants(pure.perm, resource, action)]]
    /\ UNCHANGED <<users, roles, permissions, proc, failure>>

QuietInit ==
    /\ users = <<>>
    /\ roles = <<>>
    /\ permissions = <<>>
    /\ proc = <<>>
    /\ failure = <<>>

InitGrants == QuietInit /\ pure = PureInit
NextGrants == PermissionCreate \/ PermissionReconstitute \/ PermissionGrants
SpecGrants == InitGrants /\ [][NextGrants]_vars

-----------------------------------------------------------------------------
(* The Role entity on its own: a role is built by Role.create and its      *)
(* permission methods are called on it, while the clock that new Date()    *)
(* reads advances.                                                         *)

MaxClock == 3

NoRole ==
    [id |-> None, name |-> <<>>, description |-> <<>>, permissionIds |-> <<>>,
     createdAt |-> 0, updatedAt |-> 0]

RoleEntityInit ==
    [built |-> FALSE, role |-> NoRole, now |-> 0, op |-> "none", arg |-> None,
     result |-> Ok(Undefined), before |-> NoRole]

RolePermissionInputs ==
    {<<>>, <<"p-all">>, <<"p-all", "p-users-read">>, <<"p-all", "p-all">>}

\* the entity with the two dates that the constructor is given
Dated(role, now) ==
    [id |-> role.id, name |-> role.name, description |-> role.description,
     permissionIds |-> role.permissionIds, createdAt |-> now, updatedAt |-> now]

RoleEntity_create ==
    /\ ~pure.built
    /\ \E permissionIds \in RolePermissionInputs :
          LET roleResult == Role_create("r-new1",
                                        [name |-> <<"q", "a">>, description |-> S_desc,
                                         permissionIds |-> permissionIds])
          IN  IF ~roleResult.ok
                  THEN pure' = [pure EXCEPT !.op = "create", !.arg = permissionIds,
                                            !.result = roleResult]
              ELSE pure' = [pure EXCEPT !.built = TRUE, !.op = "create",
                                        !.arg = permissionIds,
                                        !.result = Ok(Undefined),
                                        !.role = Dated(roleResult.value, pure.now),
                                        !.before = NoRole]
    /\ UNCHANGED <<users, roles, permissions, proc, failure>>

RoleEntity_assignPermission ==
    /\ pure.built
    /\ \E permissionId \in PermissionIds :
          LET assigned == Role_assignPermission(pure.role, permissionId, pure.now)
          IN  pure' = [pure EXCEPT !.op = "assignPermission", !.arg = permissionId,
                                   !.result = assigned.result, !.role = assigned.role,
                                   !.before = pure.role]
    /\ UNCHANGED <<users, roles, permissions, proc, failure>>

RoleEntity_removePermission ==
    /\ pure.built
    /\ \E permissionId \in PermissionIds :
          LET removed == Role_removePermission(pure.role, permissionId, pure.now)
          IN  pure' = [pure EXCEPT !.op = "removePermission", !.arg = permissionId,
                                   !.result = removed.result, !.role = removed.role,
                                   !.before = pure.role]
    /\ UNCHANGED <<users, roles, permissions, proc, failure>>

RoleEntity_replacePermissions ==
    /\ pure.built
    /\ \E permissionIds \in RolePermissionInputs :
          LET replaced == Role_replacePermissions(pure.role, permissionIds)
          IN  pure' = [pure EXCEPT !.op = "replacePermissions", !.arg = permissionIds,
                                   !.result = replaced.result, !.role = replaced.role,
                                   !.before = pure.role]
    /\ UNCHANGED <<users, roles, permissions, proc, failure>>

\* time passes
RoleEntity_tick ==
    /\ pure.now < MaxClock
    /\ pure' = [pure EXCEPT !.now = @ + 1]
    /\ UNCHANGED <<users, roles, permissions, proc, failure>>

InitRoleEntity == QuietInit /\ pure = RoleEntityInit
NextRoleEntity ==
    \/ RoleEntity_create
    \/ RoleEntity_assignPermission
    \/ RoleEntity_removePermission
    \/ RoleEntity_replacePermissions
    \/ RoleEntity_tick
SpecRoleEntity == InitRoleEntity /\ [][NextRoleEntity]_vars

-----------------------------------------------------------------------------
(* The User entity on its own: a user is built by User.create and its      *)
(* methods are called on it, while the clock advances.                     *)

NoUser ==
    [id |-> None, email |-> <<>>, password |-> <<>>, firstName |-> <<>>,
     lastName |-> <<>>, isActive |-> FALSE, roleId |-> None,
     createdAt |-> 0, updatedAt |-> 0]

UserEntityInit ==
    [built |-> FALSE, user |-> NoUser, now |-> 0, op |-> "none", arg |-> None,
     result |-> Ok(Undefined), before |-> NoUser]

EmailValues == {E_bob, <<"c", "@", "x", ".", "y">>}
PasswordValues == {PasswordHashService_hash(PW_bob), PasswordHashService_hash(PW_new)}
RoleIdValues == {"r-user", "r-ops"}

\* the call of a method on the built user: what it returns, and the entity
\* after it
UserEntity_called(op, arg, mutated) ==
    pure' = [pure EXCEPT !.op = op, !.arg = arg, !.result = mutated.result,
                         !.user = mutated.user, !.before = pure.user]

UserEntity_create ==
    /\ ~pure.built
    /\ \E firstName \in {<<"B", "o">>, <<"B", "0">>} :
          LET userResult == User_create("u-new1",
                                        [email |-> E_bob,
                                         password |-> PasswordHashService_hash(PW_bob),
                                         firstName |-> firstName, lastName |-> <<"B">>,
                                         roleId |-> "r-user"])
          IN  IF ~userResult.ok
                  THEN pure' = [pure EXCEPT !.op = "create", !.result = userResult]
              ELSE pure' = [pure EXCEPT
                              !.built = TRUE, !.op = "create", !.result = Ok(Undefined),
                              !.user = [f \in DOMAIN NoUser |->
                                          IF f \in {"createdAt", "updatedAt"} THEN pure.now
                                          ELSE userResult.value[f]]]
    /\ UNCHANGED <<users, roles, permissions, proc, failure>>

UserEntity_changeEmail ==
    /\ pure.built
    /\ \E email \in EmailValues :
          UserEntity_called("changeEmail", email, User_changeEmail(pure.user, email))
    /\ UNCHANGED <<users, roles, permissions, proc, failure>>

UserEntity_changePassword ==
    /\ pure.built
    /\ \E password \in PasswordValues :
          UserEntity_called("changePassword", password,
                            User_changePassword(pure.user, password))
    /\ UNCHANGED <<users, roles, permissions, proc, failure>>

UserEntity_changeRole ==
    /\ pure.built
    /\ \E roleId \in RoleIdValues :
          UserEntity_called("changeRole", roleId, User_changeRole(pure.user, roleId))
    /\ UNCHANGED <<users, roles, permissions, proc, failure>>

UserEntity_activate ==
    /\ pure.built
    /\ UserEntity_called("activate", None, User_activate(pure.user))
    /\ UNCHANGED <<users, roles, permissions, proc, failure>>

UserEntity_deactivate ==
    /\ pure.built
    /\ UserEntity_called("deactivate", None, User_deactivate(pure.user))
    /\ UNCHANGED <<users, roles, permissions, proc, failure>>

\* time passes
UserEntity_tick ==
    /\ pure.now < MaxClock
    /\ pure' = [pure EXCEPT !.now = @ + 1]
    /\ UNCHANGED <<users, roles, permissions, proc, failure>>

InitUserEntity == QuietInit /\ pure = UserEntityInit
NextUserEntity ==
    \/ UserEntity_create
    \/ UserEntity_changeEmail
    \/ UserEntity_changePassword
    \/ UserEntity_changeRole
    \/ UserEntity_activate
    \/ UserEntity_deactivate
    \/ UserEntity_tick
SpecUserEntity == InitUserEntity /\ [][NextUserEntity]_vars

\* ---- Role.reconstitute and the arrays it is given and hands out ----

\* An array is a cell of the heap: "given" is the array of the caller's props,
\* "held" the one the entity keeps, "handed" the one getPermissionIds returned.
NoCells == [given |-> <<>>, held |-> <<>>, handed |-> <<>>]

RolePropsInit ==
    [built |-> FALSE, props |-> NoRole, role |-> NoRole, heap |-> NoCells,
     heldRef |-> None, handedRef |-> None, op |-> "none"]

RolePropsValues ==
    { [id |-> "r-ops", name |-> name, description |-> S_desc, isSystem |-> isSystem,
       permissionIds |-> permissionIds, createdAt |-> createdAt, updatedAt |-> MaxClock]
        : name \in {<<"O", "P", "S">>, <<"o", "p", "s">>},
          isSystem \in BOOLEAN,
          permissionIds \in {<<>>, <<"p-all">>, <<"p-all", "p-users-read">>},
          createdAt \in {0, 1} }

\* new Role(...) in reconstitute: the private fields after construction
Role_constructed(props) ==
    [Dated(Role_reconstitute(props), props.createdAt) EXCEPT !.updatedAt = props.updatedAt]

\* Role.reconstitute(props): [...props.permissionIds] is a new array
RoleProps_reconstitute ==
    /\ ~pure.built
    /\ \E props \in RolePropsValues :
          pure' = [pure EXCEPT !.built = TRUE, !.props = props,
                               !.role = Role_constructed(props),
                               !.heap = [@ EXCEPT !.given = props.permissionIds,
                                                  !.held = props.permissionIds],
                               !.heldRef = "held",
                               !.op = "reconstitute"]
    /\ UNCHANGED <<users, roles, permissions, proc, failure>>

\* Role.getPermissionIds(): [...this._permissionIds] is a new array
RoleProps_getPermissionIds ==
    /\ pure.built
    /\ pure' = [pure EXCEPT !.heap = [@ EXCEPT !.handed = pure.heap[pure.heldRef]],
                            !.handedRef = "handed",
                            !.op = "getPermissionIds"]
    /\ UNCHANGED <<users, roles, permissions, proc, failure>>

\* the caller pushes an id on the array it passed in props
RoleProps_pushGiven ==
    /\ pure.built
    /\ Len(pure.heap.given) <= MaxLen
    /\ \E permissionId \in PermissionIds :
          pure' = [pure EXCEPT !.heap = [@ EXCEPT !.given = Append(@, permissionId)],
                               !.op = "pushGiven"]
    /\ UNCHANGED <<users, roles, permissions, proc, failure>>

\* the caller empties the array that getPermissionIds returned
RoleProps_clearHanded ==
    /\ pure.built
    /\ pure.handedRef # None
    /\ pure.heap[pure.handedRef] # <<>>
    /\ pure' = [pure EXCEPT !.heap = [@ EXCEPT ![pure.handedRef] = <<>>],
                            !.op = "clearHanded"]
    /\ UNCHANGED <<users, roles, permissions, proc, failure>>

InitRoleProps == QuietInit /\ pure = RolePropsInit
NextRoleProps ==
    \/ RoleProps_reconstitute
    \/ RoleProps_getPermissionIds
    \/ RoleProps_pushGiven
    \/ RoleProps_clearHanded
SpecRoleProps == InitRoleProps /\ [][NextRoleProps]_vars

\* trim-and-lowercase, as Permission.grants normalises its inputs
Normalized(s) == Trim(ToLowerCase(s))

\* C7: Permission.grants(resource, action) is true exactly when, with the inputs
\* lowercased and trimmed, the permission's resource and action both equal the
\* inputs, or its action is * and its resource equals the input resource, or its
\* resource is * and its action equals the input action, or both are *.
C7_GrantsExactlyTheFourRules ==
    pure.called =>
        LET p == pure.perm
            r == Normalized(pure.call.resource)
            a == Normalized(pure.call.action)
        IN  pure.call.result <=>
                \/ p.resource = r /\ p.action = a
                \/ p.action = <<"*">> /\ p.resource = r
                \/ p.resource = <<"*">> /\ p.action = a
                \/ p.resource = <<"*">> /\ p.action = <<"*">>

\* a prefix pattern (a*) was asked about a resource it would match as a glob,
\* with the same action, and did not grant
C7_Witness ==
    /\ pure.called
    /\ pure.perm.resource = <<"a", "*">>
    /\ Normalized(pure.call.resource) = <<"a", "a">>
    /\ pure.perm.action = Normalized(pure.call.action)
    /\ ~pure.call.result

\* the permission was asked about its own resource and action
AskedAboutItself ==
    /\ pure.called
    /\ pure.call.resource = pure.perm.resource
    /\ pure.call.action = pure.perm.action

IsFullWildcard(p) == p.resource = <<"*">> /\ p.action = <<"*">>

\* C8 as stated: every permission, from create or reconstitute, grants its own
\* (resource, action), and a *:* permission grants every pair.
C8_Original ==
    /\ AskedAboutItself => pure.call.result
    /\ pure.called /\ IsFullWildcard(pure.perm) => pure.call.result

\* C8 amended: a permission grants its own (resource, action) when it was built
\* by Permission.create, or reconstituted from a resource and an action that are
\* already lowercase and trimmed; reconstituted from a resource or action that is
\* not in that form it does not; and a *:* permission grants every pair.
C8_ReflexiveWhenNormalized ==
    /\ AskedAboutItself =>
          (pure.call.result <=>
              /\ Normalized(pure.perm.resource) = pure.perm.resource
              /\ Normalized(pure.perm.action) = pure.perm.action)
    /\ AskedAboutItself /\ pure.how = "create" => pure.call.result
    /\ pure.called /\ IsFullWildcard(pure.perm) => pure.call.result

\* a permission built by Permission.create was asked about its own resource and
\* action, and granted
C8_Witness ==
    /\ AskedAboutItself
    /\ pure.how = "create"
    /\ pure.perm.resource = <<"a", "a">>
    /\ pure.call.result

-----------------------------------------------------------------------------
(* The specifications of the running service.  Init is the database after  *)
(* seeding, with no request in flight.                                     *)

Init ==
    /\ users = SeedUsers
    /\ roles = SeedRoles
    /\ permissions = SeedPermissions
    /\ proc = [p \in Procs |-> Idle]
    /\ pure = PureInit
    /\ failure = [p \in Procs |-> NoError]

\* authorization queries in slot 1, while slot 2 updates users and deletes
\* roles, and permissions are deleted
NextAuthz ==
    \/ UserHasPermission_call(1)
    \/ UserHasPermission_findUser(1)
    \/ UserHasPermission_findRole(1)
    \/ UserHasPermission_findPermissions(1)
    \/ GetUserPermissions_call(1)
    \/ GetUserPermissions_findUser(1)
    \/ GetUserPermissions_findRole(1)
    \/ GetUserPermissions_findPermissions(1)
    \/ UpdateUser_callAccess(2)
    \/ UpdateUser_findById(2)
    \/ UpdateUser_findRole(2)
    \/ UpdateUser_update(2)
    \/ DeleteRole_call(2)
    \/ DeleteRole_findById(2)
    \/ DeleteRole_delete(2)
    \/ PermissionRepositoryImpl_delete
    \/ \E p \in Procs : Complete(p)

SpecAuthz == Init /\ [][NextAuthz]_vars

\* role-name queries in slot 1, while slot 2 updates users and deletes roles
NextHasRole ==
    \/ UserHasRole_call(1)
    \/ UserHasRole_findUser(1)
    \/ UserHasRole_findRole(1)
    \/ UpdateUser_callAccess(2)
    \/ UpdateUser_findById(2)
    \/ UpdateUser_findRole(2)
    \/ UpdateUser_update(2)
    \/ DeleteRole_call(2)
    \/ DeleteRole_findById(2)
    \/ DeleteRole_delete(2)
    \/ \E p \in Procs : Complete(p)

SpecHasRole == Init /\ [][NextHasRole]_vars

\* logins and permission queries in slot 1, while UpdateUser runs in slot 2 and
\* the updates of isActive and roleId in slot 1 as well
NextDeactivation ==
    \/ LoginUser_call(1)
    \/ LoginUser_findByEmail(1)
    \/ LoginUser_compare(1)
    \/ UserHasPermission_call(1)
    \/ UserHasPermission_findUser(1)
    \/ UserHasPermission_findRole(1)
    \/ UserHasPermission_findPermissions(1)
    \/ UpdateUser_callAccess(1)
    \/ UpdateUser_call(2)
    \/ \E p \in Procs :
          \/ UpdateUser_findById(p)
          \/ UpdateUser_existsByEmail(p)
          \/ UpdateUser_hash(p)
          \/ UpdateUser_findRole(p)
          \/ UpdateUser_update(p)
          \/ Complete(p)

SpecDeactivation == Init /\ [][NextDeactivation]_vars

\* the use cases that write users and roles, one execution at a time in slot 1
NextReferences ==
    \/ RegisterUser_call(1)
    \/ RegisterUser_existsByEmail(1)
    \/ RegisterUser_hash(1)
    \/ RegisterUser_findByName(1)
    \/ RegisterUser_save(1)
    \/ CreateUser_call(1)
    \/ CreateUser_existsByEmail(1)
    \/ CreateUser_findRole(1)
    \/ CreateUser_hash(1)
    \/ CreateUser_save(1)
    \/ UpdateUser_call(1)
    \/ UpdateUser_findById(1)
    \/ UpdateUser_existsByEmail(1)
    \/ UpdateUser_hash(1)
    \/ UpdateUser_findRole(1)
    \/ UpdateUser_update(1)
    \/ CreateRole_call(1)
    \/ CreateRole_existsByName(1)
    \/ CreateRole_findByIds(1)
    \/ CreateRole_save(1)
    \/ DeleteRole_call(1)
    \/ DeleteRole_findById(1)
    \/ DeleteRole_delete(1)
    \/ Complete(1)

SpecReferences == Init /\ [][NextReferences]_vars

\* no execution is in flight
AllIdle == \A p \in Procs : proc[p].op = "idle"

\* the use cases that write a user's email, one execution at a time: CreateUser
\* and UpdateUser in slot 1, RegisterUser in slot 2
NextEmails ==
    \/ AllIdle /\ CreateUser_call(1)
    \/ CreateUser_existsByEmail(1)
    \/ CreateUser_findRole(1)
    \/ CreateUser_hash(1)
    \/ CreateUser_save(1)
    \/ AllIdle /\ RegisterUser_call(2)
    \/ RegisterUser_existsByEmail(2)
    \/ RegisterUser_hash(2)
    \/ RegisterUser_findByName(2)
    \/ RegisterUser_save(2)
    \/ AllIdle /\ UpdateUser_callEmail(1)
    \/ UpdateUser_findById(1)
    \/ UpdateUser_existsByEmail(1)
    \/ UpdateUser_hash(1)
    \/ UpdateUser_findRole(1)
    \/ UpdateUser_update(1)
    \/ \E p \in Procs : Complete(p)

SpecEmails == Init /\ [][NextEmails]_vars

\* the user use cases: logins in either slot, the other reads in slot 1, the
\* writes in slot 2
NextUsers ==
    \/ \E p \in Procs :
          \/ LoginUser_call(p)
          \/ LoginUser_findByEmail(p)
          \/ LoginUser_compare(p)
          \/ Complete(p)
    \/ GetUserById_call(1)
    \/ GetUserById_findById(1)
    \/ ListUsers_call(1)
    \/ ListUsers_findAll(1)
    \/ ListUsers_count(1)
    \/ UpdateUser_call(2)
    \/ UpdateUser_findById(2)
    \/ UpdateUser_existsByEmail(2)
    \/ UpdateUser_hash(2)
    \/ UpdateUser_findRole(2)
    \/ UpdateUser_update(2)
    \/ CreateUser_call(2)
    \/ CreateUser_existsByEmail(2)
    \/ CreateUser_findRole(2)
    \/ CreateUser_hash(2)
    \/ CreateUser_save(2)
    \/ RegisterUser_call(2)
    \/ RegisterUser_existsByEmail(2)
    \/ RegisterUser_hash(2)
    \/ RegisterUser_findByName(2)
    \/ RegisterUser_save(2)

SpecUsers == Init /\ [][NextUsers]_vars

\* the role use cases: roles are created in either slot, updated and deleted
\* in slot 1
NextRoles ==
    \/ \E p \in Procs :
          \/ CreateRole_call(p)
          \/ CreateRole_existsByName(p)
          \/ CreateRole_findByIds(p)
          \/ CreateRole_save(p)
          \/ Complete(p)
    \/ UpdateRole_call(1)
    \/ UpdateRole_findById(1)
    \/ UpdateRole_existsByName(1)
    \/ UpdateRole_findByIds(1)
    \/ UpdateRole_update(1)
    \/ DeleteRole_call(1)
    \/ DeleteRole_findById(1)
    \/ DeleteRole_delete(1)

SpecRoles == Init /\ [][NextRoles]_vars

\* registration: the database is seeded, or seeded without the USER role (a
\* misconfigured system); users register in either slot
InitRegister ==
    /\ users = SeedUsers
    /\ roles \in {SeedRoles, Without(SeedRoles, "r-user")}
    /\ permissions = SeedPermissions
    /\ proc = [p \in Procs |-> Idle]
    /\ pure = PureInit
    /\ failure = [p \in Procs |-> NoError]

NextRegister ==
    \E p \in Procs :
        \/ RegisterUser_call(p)
        \/ RegisterUser_existsByEmail(p)
        \/ RegisterUser_hash(p)
        \/ RegisterUser_findByName(p)
        \/ RegisterUser_save(p)
        \/ Complete(p)

SpecRegister == InitRegister /\ [][NextRegister]_vars

\* updates of a user in both slots, those of slot 1 with a late refusal, while
\* the user is deleted in slot 2
NextUpdateUser ==
    \/ UpdateUser_callLate(1)
    \/ UpdateUser_call(2)
    \/ \E p \in Procs :
          \/ UpdateUser_findById(p)
          \/ UpdateUser_existsByEmail(p)
          \/ UpdateUser_hash(p)
          \/ UpdateUser_findRole(p)
          \/ UpdateUser_update(p)
          \/ Complete(p)
    \/ DeleteUser_call(2)
    \/ DeleteUser_delete(2)
SpecUpdateUser == Init /\ [][NextUpdateUser]_vars

\* users and roles are deleted in either slot
NextDeletes ==
    \E p \in Procs :
        \/ DeleteUser_call(p)
        \/ DeleteUser_delete(p)
        \/ DeleteRole_call(p)
        \/ DeleteRole_findById(p)
        \/ DeleteRole_delete(p)
        \/ Complete(p)
SpecDeletes == Init /\ [][NextDeletes]_vars

\* every use case and both queries of AuthorizationService, one execution at a
\* time in slot 1
NextFailures ==
    \/ UserHasPermission_call(1)
    \/ UserHasPermission_findUser(1)
    \/ UserHasPermission_findRole(1)
    \/ UserHasPermission_findPermissions(1)
    \/ GetUserPermissions_call(1)
    \/ GetUserPermissions_findUser(1)
    \/ GetUserPermissions_findRole(1)
    \/ GetUserPermissions_findPermissions(1)
    \/ LoginUser_call(1)
    \/ LoginUser_findByEmail(1)
    \/ LoginUser_compare(1)
    \/ GetUserById_call(1)
    \/ GetUserById_findById(1)
    \/ ListUsers_call(1)
    \/ ListUsers_findAll(1)
    \/ ListUsers_count(1)
    \/ List_start(1, "listRoles", {NoNumber}, {NoNumber})
    \/ ListRoles_findAll(1)
    \/ ListRoles_count(1)
    \/ List_start(1, "listPermissions", {NoNumber}, {NoNumber})
    \/ ListPermissions_findAll(1)
    \/ ListPermissions_count(1)
    \/ UpdateUser_call(1)
    \/ UpdateUser_findById(1)
    \/ UpdateUser_existsByEmail(1)
    \/ UpdateUser_hash(1)
    \/ UpdateUser_findRole(1)
    \/ UpdateUser_update(1)
    \/ CreateUser_call(1)
    \/ CreateUser_existsByEmail(1)
    \/ CreateUser_findRole(1)
    \/ CreateUser_hash(1)
    \/ CreateUser_save(1)
    \/ RegisterUser_call(1)
    \/ RegisterUser_existsByEmail(1)
    \/ RegisterUser_hash(1)
    \/ RegisterUser_findByName(1)
    \/ RegisterUser_save(1)
    \/ DeleteUser_call(1)
    \/ DeleteUser_delete(1)
    \/ CreateRole_call(1)
    \/ CreateRole_existsByName(1)
    \/ CreateRole_findByIds(1)
    \/ CreateRole_save(1)
    \/ UpdateRole_call(1)
    \/ UpdateRole_findById(1)
    \/ UpdateRole_existsByName(1)
    \/ UpdateRole_findByIds(1)
    \/ UpdateRole_update(1)
    \/ DeleteRole_call(1)
    \/ DeleteRole_findById(1)
    \/ DeleteRole_delete(1)
    \/ GetRoleById_call(1)
    \/ GetRoleById_findById(1)
    \/ GetPermissionById_call(1)
    \/ GetPermissionById_findById(1)
    \/ UserHasRole_call(1)
    \/ UserHasRole_findUser(1)
    \/ UserHasRole_findRole(1)
    \/ Complete(1)
SpecFailures == Init /\ [][NextFailures]_vars

\* the List use cases in slot 1, while slot 2 deletes roles and creates
\* users, and permissions are deleted
NextLists ==
    \/ ListUsers_callPaged(1)
    \/ ListUsers_findAll(1)
    \/ ListUsers_count(1)
    \/ ListRoles_call(1)
    \/ ListRoles_findAll(1)
    \/ ListRoles_count(1)
    \/ ListPermissions_call(1)
    \/ ListPermissions_findAll(1)
    \/ ListPermissions_count(1)
    \/ DeleteRole_call(2)
    \/ DeleteRole_findById(2)
    \/ DeleteRole_delete(2)
    \/ PermissionRepositoryImpl_delete
    \/ \E p \in Procs : Complete(p)

SpecLists == Init /\ [][NextLists]_vars

\* two executions of the List use cases side by side, their reads served in
\* any order, with no writer
NextListOrder ==
    \E p \in Procs :
        \/ List_start(p, "listUsers", {NoNumber, Number(1)}, {NoNumber})
        \/ ListUsers_findAll(p)
        \/ ListUsers_count(p)
        \/ List_start(p, "listRoles", {NoNumber}, {NoNumber, Number(1)})
        \/ ListRoles_findAll(p)
        \/ ListRoles_count(p)
        \/ List_start(p, "listPermissions", {NoNumber}, {NoNumber})
        \/ ListPermissions_findAll(p)
        \/ ListPermissions_count(p)
        \/ Complete(p)

SpecListOrder == Init /\ [][NextListOrder]_vars

-----------------------------------------------------------------------------
(* Claims about AuthorizationService, under SpecAuthz *)

\* execution p, suspended at pc of op, takes its next step
Steps(p, op, pc) == At(p, op, pc) /\ proc'[p] # proc[p]

\* the role row of the user that execution p has loaded
RoleRowOf(p) == roles[proc[p].local.user.roleId]

\* some stored permission among ids grants (resource, action)
SomeStoredGrants(ids, resource, action) ==
    \E i \in DOMAIN ids :
        /\ ids[i] \in DOMAIN permissions
        /\ Permission_grants(permissions[ids[i]], resource, action)

C1_FindRoleStep(p) ==
    (/\ Steps(p, "userHasPermission", "findRole")
     /\ proc[p].local.user.roleId \in DOMAIN roles)
    => IF proc'[p].pc = "done"
       THEN \/ ~proc'[p].result.ok /\ proc'[p].result.error.type = "DatabaseError"
            \/ /\ proc'[p].result = Ok(FALSE)
               /\ RoleRowOf(p).permissionIds = <<>>
       ELSE /\ proc'[p].pc = "findPermissions"
            /\ RoleRowOf(p).permissionIds # <<>>
            /\ proc'[p].local.role.permissionIds = RoleRowOf(p).permissionIds

C1_FindPermissionsStep(p) ==
    Steps(p, "userHasPermission", "findPermissions")
    => /\ proc'[p].pc = "done"
       /\ \/ ~proc'[p].result.ok /\ proc'[p].result.error.type = "DatabaseError"
          \/ /\ proc'[p].result.ok
             /\ proc'[p].result.value =
                   SomeStoredGrants(proc[p].local.role.permissionIds,
                                    proc[p].input.resource, proc[p].input.action)

\* C1: for an existing, active user whose role exists, userHasPermission
\* returns Ok(true) exactly when one of the role's permission ids that still
\* has a stored permission grants (resource, action); an id without a stored
\* permission is skipped and raises no error (the only failure is the
\* storage's own), and a role without permission ids yields Ok(false) with no
\* bulk load.
C1_TrueIffSomeLoadedGrants ==
    [][\A p \in Procs : C1_FindRoleStep(p) /\ C1_FindPermissionsStep(p)]_vars

\* an execution answered Ok(true) although one of the role's permission ids
\* had no stored permission when the bulk load ran
C1_Witness ==
    \E p \in Procs :
        /\ At(p, "userHasPermission", "done")
        /\ proc[p].result = Ok(TRUE)
        /\ "loaded" \in DOMAIN proc[p].local
        /\ Len(proc[p].local.loaded) = 1
        /\ Len(proc[p].local.role.permissionIds) = 2

C2_FindUserStep(p, op, answer) ==
    (/\ Steps(p, op, "findUser")
     /\ proc[p].input.userId \in DOMAIN users
     /\ ~users[proc[p].input.userId].isActive)
    => /\ proc'[p].pc = "done"
       /\ proc'[p].calls = <<"userRepository.findById">>
       /\ \/ proc'[p].result = Ok(answer)
          \/ ~proc'[p].result.ok /\ proc'[p].result.error.type = "DatabaseError"

\* C2: for a stored user with isActive = false, userHasPermission returns
\* Ok(false) and getUserPermissions returns Ok of the empty list, whatever the
\* pair asked about and whatever the user's role is or holds; the role and the
\* permissions are not even looked up, and the only failure is the storage's.
C2_InactiveUserHasNoPermissions ==
    [][\A p \in Procs :
          /\ C2_FindUserStep(p, "userHasPermission", FALSE)
          /\ C2_FindUserStep(p, "getUserPermissions", <<>>)]_vars

\* an inactive user whose role is ADMIN, which holds *:*, was answered Ok(false)
C2_Witness ==
    \E p \in Procs :
        /\ At(p, "userHasPermission", "done")
        /\ proc[p].result = Ok(FALSE)
        /\ "user" \in DOMAIN proc[p].local
        /\ ~proc[p].local.user.isActive
        /\ proc[p].local.user.roleId = "r-admin"
        /\ "r-admin" \in DOMAIN roles
        /\ roles["r-admin"].permissionIds = <<"p-all">>
        /\ "p-all" \in DOMAIN permissions

-----------------------------------------------------------------------------
(* Claims about the user use cases, under SpecUsers *)

\* execution p of LoginUser failed on the credentials: no such user, an
\* inactive user, or a password that does not match
LoginRefused(p) ==
    /\ At(p, "loginUser", "done")
    /\ ~proc[p].result.ok
    /\ proc[p].calls # <<>>
    /\ proc[p].result.error.type # "DatabaseError"

\* the error without the echo of the email the caller sent
WithoutEcho(error) == [error EXCEPT !.metaValue = Undefined]

\* the error as its class and message show it: without its context's
\* aggregateId and metadata
WithoutContext(error) ==
    [error EXCEPT !.metaValue = Undefined, !.reason = None, !.aggregateId = None]

\* C3 as stated: any two LoginUser executions that fail on the credentials
\* return the same failure, and nothing in it tells the causes apart.
C3_Original ==
    \A p, q \in Procs :
        LoginRefused(p) /\ LoginRefused(q)
        => WithoutEcho(proc[p].result.error) = WithoutEcho(proc[q].result.error)

\* What the three failures do share: any two LoginUser executions that fail
\* on the credentials return an UnauthorizedError with the same message,
\* "Invalid credentials", the same aggregateType and the same operation; the
\* error's context names the cause (metadata.reason) and, once a user was
\* found, carries aggregateId.
LoginRefusals_SameClassAndMessage ==
    \A p, q \in Procs :
        LoginRefused(p) /\ LoginRefused(q)
        => /\ WithoutContext(proc[p].result.error) = WithoutContext(proc[q].result.error)
           /\ proc[p].result.error.type = "UnauthorizedError"
           /\ proc[p].result.error.message = "Invalid credentials"
           /\ proc[p].result.error.reason
                 \in {"user_not_found", "account_inactive", "invalid_password"}
           /\ (proc[p].result.error.aggregateId = None)
                 = (proc[p].result.error.reason = "user_not_found")

\* one login failed for an unknown email while another failed for a wrong
\* password
C3_Witness ==
    \E p, q \in Procs :
        /\ LoginRefused(p) /\ LoginRefused(q)
        /\ proc[p].result.error.reason = "user_not_found"
        /\ proc[q].result.error.reason = "invalid_password"

\* the stored user whose email is the normalized form of the email given
UserByEmail(email) ==
    {id \in DOMAIN users : users[id].email = ToLowerCase(Trim(email))}

C9_FindByEmailStep(p) ==
    Steps(p, "loginUser", "findByEmail")
    => IF \E id \in UserByEmail(proc[p].input.email) : users[id].isActive
       THEN \/ proc'[p].pc = "done" /\ proc'[p].result.error.type = "DatabaseError"
            \/ /\ proc'[p].pc = "compare"
               /\ proc'[p].local.user.id \in UserByEmail(proc[p].input.email)
               /\ proc'[p].local.user = users[proc'[p].local.user.id]
       ELSE /\ proc'[p].pc = "done"
            /\ ~proc'[p].result.ok
            /\ proc'[p].calls = <<"userRepository.findByEmail">>

C9_CompareStep(p) ==
    Steps(p, "loginUser", "compare")
    => /\ proc'[p].pc = "done"
       /\ IF proc[p].local.user.password = <<"$">> \o proc[p].input.password
          THEN /\ proc'[p].calls = <<"userRepository.findByEmail",
                                     "passwordHashService.compare", "jwtService.sign">>
               /\ proc'[p].result.ok
               /\ proc'[p].result.value.accessToken = [jwt |-> [userId |-> proc[p].local.user.id]]
          ELSE /\ proc'[p].calls = <<"userRepository.findByEmail",
                                     "passwordHashService.compare">>
               /\ ~proc'[p].result.ok

\* C9: LoginUser goes on to passwordHashService.compare only with the stored
\* user whose email is the normalized email given, and only if that user is
\* active: for an absent or inactive user it returns a failure after
\* findByEmail alone.  jwtService.sign is called only after compare returned
\* true, its payload is the user's id and nothing else, and a token is
\* returned in no other case.
C9_TokenOnlyForActiveUserWithPassword ==
    [][\A p \in Procs : C9_FindByEmailStep(p) /\ C9_CompareStep(p)]_vars

\* a login with an email in another case and with spaces around it returned a
\* token for the user stored under the normalized email
C9_Witness ==
    \E p \in Procs :
        /\ At(p, "loginUser", "done")
        /\ proc[p].result.ok
        /\ proc[p].input.email # proc[p].local.user.email
        /\ proc[p].result.value.accessToken = [jwt |-> [userId |-> "u-bob"]]

\* UserResponseDto, without the two dates
UserResponseDtoFields ==
    {"id", "email", "firstName", "lastName", "fullName", "isActive", "roleId"}
TextFields == {"email", "firstName", "lastName", "fullName"}

\* dto has the fields of UserResponseDto and no other, none of its texts is
\* the password given or a hash, and it is the DTO of user
Public(dto, user, plaintext) ==
    /\ DOMAIN dto = UserResponseDtoFields
    /\ \A f \in TextFields : dto[f] # plaintext /\ dto[f] # user.password /\ Head(dto[f]) # "$"
    /\ dto.id = user.id
    /\ \A other \in {PW_admin, PW_bob, PW_new} :
          dto = UserMapper_toDto([user EXCEPT !.password = PasswordHashService_hash(other)])

UserOps == {"registerUser", "createUser", "updateUser", "getUserById"}

\* C10: the success result of RegisterUser, LoginUser, CreateUser, UpdateUser,
\* GetUserById and ListUsers holds user DTOs with the fields of
\* UserResponseDto alone: no password field, no text that is the password
\* given or the stored hash, and the same DTO whatever the user's password is.
C10_NoPasswordInResults ==
    \A p \in Procs :
        (proc[p].pc = "done" /\ proc[p].result.ok)
        => /\ proc[p].op \in UserOps
              => Public(proc[p].result.value, proc[p].local.user,
                        IF proc[p].op = "getUserById" THEN <<>>
                        ELSE IF proc[p].op = "updateUser" THEN proc[p].input.in.password
                        ELSE proc[p].input.password)
           /\ proc[p].op = "loginUser"
              => Public(proc[p].result.value.user, proc[p].local.user,
                        proc[p].input.password)
           /\ proc[p].op = "listUsers"
              => \A i \in DOMAIN proc[p].result.value.data :
                    Public(proc[p].result.value.data[i],
                           proc[p].local.rowsResult.value[i], <<>>)

\* an update that set a new password returned the user's DTO, while a list of
\* users was returned in the other slot
C10_Witness ==
    /\ At(2, "updateUser", "done")
    /\ proc[2].result.ok
    /\ proc[2].local.user.password = PasswordHashService_hash(PW_new)
    /\ At(1, "listUsers", "done")
    /\ proc[1].result.ok
    /\ Len(proc[1].result.value.data) > 0

-----------------------------------------------------------------------------
(* Claims about the role use cases, under SpecRoles *)

\* the role that execution p was called with is stored as a system role
OnSystemRole(p) ==
    /\ proc[p].op \in {"updateRole", "deleteRole"}
    /\ proc[p].input.roleId \in DOMAIN roles
    /\ roles[proc[p].input.roleId].isSystem

C4_FindByIdStep(p) ==
    (OnSystemRole(p) /\ proc[p].pc = "findById" /\ proc'[p] # proc[p])
    => /\ proc'[p].pc = "done"
       /\ ~proc'[p].result.ok
       /\ proc'[p].result.error.type \in {"ForbiddenError", "DatabaseError"}

\* C4: for a stored role with isSystem = true, UpdateRoleUseCase and
\* DeleteRoleUseCase return ForbiddenError once they have loaded the role,
\* whatever the rest of the input (the only other failure is the storage's, on
\* loading it), and never get to roleRepository.update or
\* roleRepository.delete.
C4_SystemRolesAreForbidden ==
    [][\A p \in Procs :
          /\ C4_FindByIdStep(p)
          /\ ~(OnSystemRole(p) /\ proc[p].pc \in {"update", "delete"}
                 /\ proc'[p] # proc[p])]_vars

\* C5: no step of CreateRole, UpdateRole or DeleteRole changes or removes a
\* stored role with isSystem = true, and a role that a step adds has
\* isSystem = false.
C5_SystemRolesNeverChange ==
    [][/\ \A id \in DOMAIN roles :
             roles[id].isSystem => id \in DOMAIN roles' /\ roles'[id] = roles[id]
       /\ \A id \in DOMAIN roles' \ DOMAIN roles : ~roles'[id].isSystem]_vars

\* the name of the role that execution p is about to save is taken
SavesTakenName(p) ==
    /\ At(p, "createRole", "save")
    /\ \E id \in DOMAIN roles : roles[id].name = proc[p].local.role.name

\* C6: when CreateRole passed the existence check and the name is taken by
\* the time of the write, the execution returns the ConflictError that the
\* existence check returns (or the storage's failure, if the storage is
\* down), after one call of save.
C6_LateConflictIsConflictError ==
    [][\A p \in Procs :
          (SavesTakenName(p) /\ proc'[p] # proc[p])
          => /\ proc'[p].pc = "done"
             /\ proc'[p].calls = proc[p].calls \o <<"roleRepository.save">>
             /\ \/ proc'[p].result = Fail(RoleNameConflict(proc[p].input.name, "create"))
                \/ /\ ~proc'[p].result.ok
                   /\ proc'[p].result.error.cause = "driver"]_vars

-----------------------------------------------------------------------------
(* Claims about registration, under SpecRegister *)

RegisterUserCalls ==
    <<"userRepository.existsByEmail", "passwordHashService.hash",
      "roleRepository.findByName", "userRepository.save">>

IsPrefix(s, t) == Len(s) <= Len(t) /\ s = SubSeq(t, 1, Len(s))

EmailRegistered(email) == \E id \in DOMAIN users : users[id].email = email

DefaultRoleStored == \E id \in DOMAIN roles : roles[id].name = DEFAULT_ROLE

\* the calls made so far are the first calls of the order, the hash follows
\* a password that passes the policy, and save follows a role that was found
\* and a user that was built
C11_OrderOfCalls(p) ==
    proc'[p].op = "registerUser"
    => /\ IsPrefix(proc'[p].calls, RegisterUserCalls)
       /\ Len(proc'[p].calls) >= 2 => Password_create(proc'[p].input.password).ok
       /\ Len(proc'[p].calls) = 4
             => /\ User_create(proc'[p].local.user.id, proc'[p].local.user).ok
                /\ proc'[p].local.user.password
                      = PasswordHashService_hash(proc'[p].input.password)

\* after the uniqueness check: a registered email is a ConflictError, else a
\* password against the policy is a ValidationError on password, and either
\* ends the execution with that one call made
C11_ExistsByEmailStep(p) ==
    Steps(p, "registerUser", "existsByEmail")
    => /\ proc'[p].pc \in {"done", "hash"}
       /\ proc'[p].pc = "hash"
             => /\ ~EmailRegistered(proc[p].local.email)
                /\ Password_create(proc[p].input.password).ok
       /\ proc'[p].pc = "done"
             => /\ ~proc'[p].result.ok
                /\ proc'[p].calls = SubSeq(RegisterUserCalls, 1, 1)
                /\ proc'[p].result.error.type
                      \in {"DatabaseError", "ConflictError", "ValidationError"}
                /\ proc'[p].result.error.type = "ConflictError"
                      => EmailRegistered(proc[p].local.email)
                /\ proc'[p].result.error.type = "ValidationError"
                      => /\ ~EmailRegistered(proc[p].local.email)
                         /\ ~Password_create(proc[p].input.password).ok
                         /\ proc'[p].result.error.field = "password"

\* after the role lookup: without a role named USER the execution ends with
\* NotFoundError (or with the storage's failure), with save not called
C11_FindByNameStep(p) ==
    Steps(p, "registerUser", "findByName")
    => /\ proc'[p].pc \in {"done", "save"}
       /\ proc'[p].pc = "save" => DefaultRoleStored
       /\ proc'[p].pc = "done"
             => /\ ~proc'[p].result.ok
                /\ proc'[p].calls = SubSeq(RegisterUserCalls, 1, 3)
                /\ proc'[p].result.error.type
                      \in {"DatabaseError", "NotFoundError", "ValidationError"}
                /\ proc'[p].result.error.type = "NotFoundError" => ~DefaultRoleStored
                /\ ~DefaultRoleStored
                      => proc'[p].result.error.type \in {"NotFoundError", "DatabaseError"}
                /\ proc'[p].result.error.type = "ValidationError" => DefaultRoleStored

\* C11: RegisterUser calls existsByEmail, validates the password, calls hash,
\* looks the USER role up, builds the User and calls save, in this order, and
\* stops at the first step that fails: hash is not called for a registered
\* email or for a password against the policy (a ValidationError on
\* password), save is called only when every earlier step succeeded, and
\* without a USER role the result is NotFoundError with no user stored.
C11_StepsInOrder ==
    [][\A p \in Procs :
          /\ C11_OrderOfCalls(p)
          /\ C11_ExistsByEmailStep(p)
          /\ C11_FindByNameStep(p)
          /\ (users' # users => Steps(p, "registerUser", "save") \/ proc'[p] = proc[p])]_vars

\* one registration ended for the missing USER role, the other for a password
\* against the policy, and no user was stored
C11_Witness ==
    \E p, q \in Procs :
        /\ At(p, "registerUser", "done") /\ At(q, "registerUser", "done")
        /\ ~proc[p].result.ok /\ proc[p].result.error.type = "NotFoundError"
        /\ proc[p].calls = SubSeq(RegisterUserCalls, 1, 3)
        /\ ~proc[q].result.ok /\ proc[q].result.error.type = "ValidationError"
        /\ proc[q].result.error.field = "password"
        /\ proc[q].calls = SubSeq(RegisterUserCalls, 1, 1)
        /\ users = SeedUsers

\* the save of execution p stores user: one row more, the others as they were
SavedExactly(user) ==
    /\ user.id \notin DOMAIN users
    /\ DOMAIN users' = DOMAIN users \cup {user.id}
    /\ users'[user.id] = user
    /\ \A id \in DOMAIN users : users'[id] = users[id]

\* the user that RegisterUser builds once the USER role is loaded
C12_FindByNameStep(p) ==
    (Steps(p, "registerUser", "findByName") /\ proc'[p].pc = "save")
    => LET user == proc'[p].local.user
       IN  /\ user.email = ToLowerCase(Trim(proc[p].input.email))
           /\ user.isActive
           /\ user.roleId \in DOMAIN roles /\ roles[user.roleId].name = S_USER
           /\ user.password = PasswordHashService_hash(proc[p].input.password)
           /\ user.password # proc[p].input.password

C12_SaveStep(p) ==
    Steps(p, "registerUser", "save")
    => /\ proc'[p].pc = "done"
       /\ IF proc'[p].result.ok
              THEN SavedExactly(proc[p].local.user)
          ELSE users' = users

\* C12: when RegisterUser succeeds, its save stored exactly one user, and
\* that user has the trimmed lowercase form of the input email, isActive
\* true, the id of the stored role named USER as roleId, and the hash
\* service's output for the input password, never the plaintext, as password;
\* no other step of RegisterUser stores anything.
C12_SavesTheRegisteredUser ==
    [][\A p \in Procs :
          /\ C12_FindByNameStep(p)
          /\ C12_SaveStep(p)
          /\ (proc[p].op = "registerUser" /\ proc[p].pc # "save" /\ proc'[p] # proc[p])
                => users' = users]_vars

\* a registration of "C@x.y" succeeded and the user is stored as "c@x.y"
C12_Witness ==
    \E p \in Procs :
        /\ At(p, "registerUser", "done")
        /\ proc[p].result.ok
        /\ proc[p].input.email = <<"C", "@", "x", ".", "y">>
        /\ NewUserId(p) \in DOMAIN users
        /\ users[NewUserId(p)].email = <<"c", "@", "x", ".", "y">>
        /\ users[NewUserId(p)].password = <<"$">> \o PW_new
        /\ users[NewUserId(p)].roleId = "r-user"

-----------------------------------------------------------------------------
(* Claims about the List use cases, under SpecLists *)

\* the limit and the offset a request asks for, the defaults when omitted
AskedLimit(in) == IF in.limit.given THEN in.limit.n ELSE 20
AskedOffset(in) == IF in.offset.given THEN in.offset.n ELSE 0

OutOfRange(in) ==
    AskedLimit(in) < 1 \/ AskedLimit(in) > 100 \/ AskedOffset(in) < 0

\* C13: a List use case (users, roles, permissions) called with a limit
\* outside 1..100 or an offset below 0 returns a failure without calling
\* findAll or count; any other request goes on to the two reads.
C13_OutOfRangeFailsBeforeAnyCall ==
    [][\A p \in Procs :
          (proc[p].op = "idle" /\ proc'[p].op \in ListOps)
          => IF OutOfRange(proc'[p].input)
                 THEN /\ proc'[p].pc = "done"
                      /\ ~proc'[p].result.ok
                      /\ proc'[p].result.error.type = "ValidationError"
                      /\ proc'[p].calls = <<>>
             ELSE /\ proc'[p].pc = "all"
                  /\ proc'[p].local.params.limit = AskedLimit(proc'[p].input)
                  /\ proc'[p].local.params.offset = AskedOffset(proc'[p].input)]_vars

\* ListPermissions(1, -1) failed on the offset with no call made
C13_Witness ==
    /\ At(1, "listPermissions", "done")
    /\ proc[1].input = [limit |-> Number(1), offset |-> Number(-1)]
    /\ ~proc[1].result.ok
    /\ proc[1].result.error.field = "offset"
    /\ proc[1].calls = <<>>

\* execution p of a List use case returned a page
Listed(p) == proc[p].op \in ListOps /\ proc[p].pc = "done" /\ proc[p].result.ok

\* C14: a List use case that succeeds returns pagination metadata with the
\* total T that count reported, the limit and the offset asked for (20 and 0
\* when omitted), hasMore = (offset + limit < T), currentPage =
\* floor(offset / limit) + 1 and totalPages = ceil(T / limit), 0 when T is 0.
C14_PaginationMetadata ==
    \A p \in Procs :
        Listed(p)
        => LET meta == proc[p].result.value.pagination
               T == proc[p].local.countResult.value
               limit == AskedLimit(proc[p].input)
               offset == AskedOffset(proc[p].input)
           IN  /\ meta.total = T
               /\ meta.limit = limit /\ meta.offset = offset
               /\ meta.hasMore = (offset + limit < T)
               \* floor(offset / limit) + 1
               /\ (meta.currentPage - 1) * limit <= offset
               /\ offset < meta.currentPage * limit
               \* ceil(T / limit)
               /\ meta.totalPages * limit >= T
               /\ (meta.totalPages - 1) * limit < T \/ (T = 0 /\ meta.totalPages = 0)
               /\ T = 0 => meta.totalPages = 0

\* ListRoles(1, 1) over four roles: more to come, page 2 of 4
C14_Witness ==
    /\ Listed(1)
    /\ proc[1].op = "listRoles"
    /\ proc[1].input = [limit |-> Number(1), offset |-> Number(1)]
    /\ proc[1].result.value.pagination
          = [total |-> 4, limit |-> 1, offset |-> 1, hasMore |-> TRUE,
             currentPage |-> 2, totalPages |-> 4]

-----------------------------------------------------------------------------
(* Claims about repository failures, under SpecFailures *)

Tables == <<users, roles, permissions>>

\* the execution in slot p takes a step in which a repository call fails
CallFails(p) ==
    /\ proc'[p] # proc[p]
    /\ failure[p] = NoError
    /\ failure'[p] # NoError

\* the step ends the execution with the failed call's own error, and writes
\* nothing
ReturnsTheFailure(p) ==
    /\ proc'[p].pc = "done"
    /\ proc'[p].result = Fail(failure'[p])
    /\ UNCHANGED Tables

\* a List execution returns: both reads of Promise.all are in
ListReturns(p) ==
    /\ proc[p].op \in ListOps
    /\ proc[p].pc = "all"
    /\ proc'[p].pc = "done"

\* the claim as stated: each failed call's error is the error returned
C15_Original ==
    [][\A p \in Procs :
          /\ CallFails(p) /\ proc[p].op \notin ListOps => ReturnsTheFailure(p)
          /\ ListReturns(p) =>
                LET local == proc'[p].local
                IN  /\ ~local.rowsResult.ok => proc'[p].result = Fail(local.rowsResult.error)
                    /\ ~local.countResult.ok => proc'[p].result = Fail(local.countResult.error)
       ]_vars

\* C15: when a repository call of a use case or of AuthorizationService fails,
\* the execution ends at that call, returns the call's own error, unchanged,
\* and no table is written, neither by the failed call nor afterwards.  The
\* List use cases make their two reads together: they return findAll's error
\* when findAll fails, and count's error when only count fails.
C15_FailuresAreReturned ==
    [][\A p \in Procs :
          /\ CallFails(p) /\ proc[p].op \notin ListOps => ReturnsTheFailure(p)
          /\ proc'[p] # proc[p] /\ failure[p] # NoError /\ proc'[p].op = proc[p].op
                => UNCHANGED Tables
          /\ ListReturns(p) =>
                LET local == proc'[p].local
                IN  /\ ~local.rowsResult.ok => proc'[p].result = Fail(local.rowsResult.error)
                    /\ local.rowsResult.ok /\ ~local.countResult.ok
                          => proc'[p].result = Fail(local.countResult.error)
       ]_vars

\* the save of CreateRole failed, and the use case returned the error of the
\* save
C15_Witness ==
    /\ proc[1].op = "createRole"
    /\ proc[1].pc = "done"
    /\ proc[1].calls = <<"roleRepository.existsByName", "roleRepository.save">>
    /\ failure[1] # NoError
    /\ proc[1].result = Fail(failure[1])

\* both reads of a List use case failed
C15_BothReadsFail ==
    /\ proc[1].op \in ListOps
    /\ proc[1].pc = "done"
    /\ Len(proc[1].calls) = 2
    /\ ~proc[1].local.rowsResult.ok
    /\ ~proc[1].local.countResult.ok

-----------------------------------------------------------------------------
(* Claims about UpdateUserUseCase, under SpecUpdateUser *)

\* the execution of UpdateUser in slot p takes a step
UpdateUserSteps(p) ==
    /\ proc'[p] # proc[p]
    /\ proc'[p].op = "updateUser"

UpdateCalled(calls) == \E i \in DOMAIN calls : calls[i] = "userRepository.update"

\* C16: an execution of UpdateUser that returns a failure has not called
\* userRepository.update, unless the failure is the one update itself returned,
\* and no step of it has changed the user table: the table changes in the step
\* where update succeeds and the use case returns success, and in no other.
C16_FailureWritesNothing ==
    [][\A p \in Procs :
          UpdateUserSteps(p) =>
             /\ users' # users => proc'[p].pc = "done" /\ proc'[p].result.ok
             /\ proc'[p].pc = "done" /\ ~proc'[p].result.ok /\ UpdateCalled(proc'[p].calls)
                   => /\ proc[p].pc = "update"
                      /\ proc'[p].result = Fail(failure'[p])
       ]_vars

\* the first name of the request was applied to the entity in memory, the role
\* of the request does not exist, and the stored user has the name it had
C16_Witness ==
    /\ proc[1].op = "updateUser"
    /\ proc[1].pc = "done"
    /\ proc[1].result = Fail(NotFoundError("Role", IdString("r-gone"),
                                [Context EXCEPT !.aggregateType = "Role",
                                                !.aggregateId = "r-gone",
                                                !.operation = "update_user"]))
    /\ proc[1].local.user.firstName = <<"B", "o">>
    /\ "u-bob" \in DOMAIN users
    /\ users["u-bob"].firstName = <<"A">>
    /\ ~UpdateCalled(proc[1].calls)

-----------------------------------------------------------------------------
(* Claims about role names, under SpecFailures: one execution at a time *)

EqualIgnoringCase(a, b) == ToUpperCase(a) = ToUpperCase(b)

\* a stored role other than those of except has the name, letter case ignored
NameTaken(name, except) ==
    \E id \in DOMAIN roles \ except : EqualIgnoringCase(roles[id].name, name)

\* the step ends the execution with a ConflictError, and no role is written
ConflictReturned(p) ==
    /\ proc'[p].pc = "done"
    /\ ~proc'[p].result.ok
    /\ proc'[p].result.error.type = "ConflictError"
    /\ roles' = roles

\* no two stored roles have names that are equal ignoring case: the stored
\* names, in upper case, are as many as the roles
UniqueRoleNames ==
    Cardinality({ToUpperCase(roles[id].name) : id \in DOMAIN roles})
        = Cardinality(DOMAIN roles)

\* C17: with one execution at a time, CreateRole returns ConflictError and
\* writes nothing when a stored role has the requested name, letter case
\* ignored; so does UpdateRole when another stored role has it (the use case
\* looks for the name whenever the request's name differs from the role's);
\* and no two stored roles ever have names that are equal ignoring case (the
\* seeded roles have not, and no write makes two have).
C17_RoleNamesStayUnique ==
    [][/\ roles = SeedRoles => UniqueRoleNames
       /\ roles' # roles => UniqueRoleNames'
       /\ \A p \in Procs :
          /\ /\ Steps(p, "createRole", "existsByName")
             /\ failure'[p] = NoError
             /\ NameTaken(proc[p].input.name, {})
             => ConflictReturned(p)
          /\ /\ Steps(p, "updateRole", "existsByName")
             /\ failure'[p] = NoError
             /\ NameTaken(proc[p].input.in.name, {proc[p].input.roleId})
             => ConflictReturned(p)
          /\ /\ Steps(p, "updateRole", "findById")
             /\ failure'[p] = NoError
             /\ proc[p].input.roleId \in DOMAIN roles
             /\ Truthy(proc[p].input.in.name)
             /\ NameTaken(proc[p].input.in.name, {proc[p].input.roleId})
             => \/ proc'[p].pc = "existsByName"
                \/ /\ proc'[p].pc = "done"
                   /\ ~proc'[p].result.ok
                   /\ proc'[p].result.error.type = "ForbiddenError"
      ]_vars

\* the custom role was to be renamed to user while USER is stored: the use
\* case returned the conflict and the role has its name
C17_Witness ==
    /\ proc[1].op = "updateRole"
    /\ proc[1].pc = "done"
    /\ proc[1].input.roleId = "r-ops"
    /\ proc[1].result = Fail(RoleNameConflict(<<"u", "s", "e", "r">>, "update"))
    /\ "r-ops" \in DOMAIN roles
    /\ roles["r-ops"].name = S_SUPPORT
    /\ \E id \in DOMAIN roles : /\ roles[id].name = S_USER
                                 /\ Cardinality(DOMAIN roles) > Cardinality(RoleIds)

-----------------------------------------------------------------------------
(* Claims about the permission ids of a role, under SpecRoles *)

\* the permission ids that the execution suspended at findByIds has asked for
RequestedIds(p) ==
    IF proc[p].op = "createRole" THEN proc[p].local.ids
    ELSE proc[p].input.in.permissionIds.ids

\* those of them that no stored permission has
Unresolved(ids) == SelectSeq(ids, LAMBDA id : id \notin DOMAIN permissions)

PermissionNotFound(result) ==
    /\ ~result.ok
    /\ result.error.type = "NotFoundError"
    /\ result.error.entity = "Permission"

\* C18: when CreateRole or UpdateRole has looked the requested permission ids
\* up, it returns NotFoundError exactly when some requested id has no stored
\* permission; the error lists exactly the ids without one, and no role is
\* written.
C18_NotFoundIffUnresolved ==
    [][\A p \in Procs :
          /\ \/ Steps(p, "createRole", "findByIds")
             \/ Steps(p, "updateRole", "findByIds")
          /\ failure'[p] = NoError
          => /\ PermissionNotFound(proc'[p].result) <=> Unresolved(RequestedIds(p)) # <<>>
             /\ PermissionNotFound(proc'[p].result)
                   => /\ proc'[p].result.error.value = Unresolved(RequestedIds(p))
                      /\ roles' = roles
       ]_vars

\* a role was to be created with the same stored permission twice, and the use
\* case answered that no permission of an empty list was found
C18_Witness ==
    /\ proc[1].op = "createRole"
    /\ proc[1].pc = "done"
    /\ proc[1].input.permissionIds.ids = <<"p-all", "p-all">>
    /\ "p-all" \in DOMAIN permissions
    /\ PermissionNotFound(proc[1].result)
    /\ proc[1].result.error.value = <<>>

-----------------------------------------------------------------------------
(* Claims about DeleteUser and DeleteRole, under SpecDeletes *)

\* the step ends the execution with success and the row is gone, when the
\* table has a row with the id; with notFound, and no write, when it has none
DeleteAnswers(p, id, table, notFound) ==
    /\ proc'[p].pc = "done"
    /\ proc'[p].result.ok <=> id \in DOMAIN table
    /\ id \in DOMAIN table => proc'[p].result = Ok(Undefined)
    /\ id \notin DOMAIN table => proc'[p].result = Fail(notFound)

\* C19: when the storage call does not fail, DeleteUser and DeleteRole return
\* success if the repository's delete found a row with the id, and
\* NotFoundError if it found none, also when the lookup of DeleteRole had
\* found the role and another execution removed it since; after a success the
\* row is gone, so that a later delete of the same id returns NotFoundError.
C19_DeleteReportsTheRow ==
    [][\A p \in Procs :
          /\ Steps(p, "deleteUser", "delete") /\ failure'[p] = NoError
                => /\ DeleteAnswers(p, proc[p].input.userId, users,
                                    UserNotFound(proc[p].input.userId))
                   /\ proc[p].input.userId \notin DOMAIN users'
          /\ Steps(p, "deleteRole", "delete") /\ failure'[p] = NoError
                => /\ DeleteAnswers(p, proc[p].input.roleId, roles,
                                    RoleNotFound(proc[p].input.roleId))
                   /\ proc[p].input.roleId \notin DOMAIN roles'
          /\ /\ Steps(p, "deleteRole", "findById")
             /\ failure'[p] = NoError
             /\ proc[p].input.roleId \notin DOMAIN roles
             => /\ proc'[p].pc = "done"
                /\ proc'[p].result = Fail(RoleNotFound(proc[p].input.roleId))
       ]_vars

\* both executions looked the role up and found it; the first delete removed
\* it, and the second, finding no row, returned NotFoundError
C19_Witness ==
    /\ proc[1].op = "deleteRole" /\ proc[2].op = "deleteRole"
    /\ proc[1].pc = "done" /\ proc[2].pc = "done"
    /\ proc[1].input.roleId = "r-ops" /\ proc[2].input.roleId = "r-ops"
    /\ proc[1].result = Ok(Undefined)
    /\ proc[2].calls = <<"roleRepository.findById", "roleRepository.delete">>
    /\ proc[2].result = Fail(RoleNotFound("r-ops"))
    /\ "r-ops" \notin DOMAIN roles

-----------------------------------------------------------------------------
(* Claims about the permission ids of the Role entity, under SpecRoleEntity *)

Held(role) == Range(role.permissionIds)

-----------------------------------------------------------------------------
(* Claims about the User entity, under SpecUserEntity *)

\* the last call asked for what the user already had
NoChangeAsked ==
    \/ pure.op = "changeEmail" /\ pure.arg = pure.before.email
    \/ pure.op = "changePassword" /\ pure.arg = pure.before.password
    \/ pure.op = "changeRole" /\ pure.arg = pure.before.roleId
    \/ pure.op = "activate" /\ pure.before.isActive
    \/ pure.op = "deactivate" /\ ~pure.before.isActive

\* C21: changeEmail, changePassword and changeRole called with the value the
\* user has, and activate and deactivate called on a user that is already
\* active or inactive, fail with a ValidationError, and the user has every
\* field, updatedAt among them, as before the call.
C21_NoOpIsRefused ==
    pure.built /\ NoChangeAsked =>
        /\ ~pure.result.ok
        /\ pure.result.error.type = "ValidationError"
        /\ pure.user = pure.before

\* the user was deactivated, time passed, and it was deactivated again
C21_Witness ==
    /\ pure.built
    /\ pure.op = "deactivate"
    /\ ~pure.before.isActive
    /\ ~pure.result.ok
    /\ pure.user.updatedAt < pure.now
    /\ pure.user.updatedAt > pure.user.createdAt

\* the getter of one field of props returns the value props had: the
\* permission ids are read with getPermissionIds(), a field the entity does
\* not have reads as undefined
ReadsBack(field) ==
    IF field = "permissionIds"
        THEN pure.heap[pure.heldRef] = pure.props.permissionIds
    ELSE field \in DOMAIN pure.role /\ pure.role[field] = pure.props[field]

\* C22: for every props value, reading back all getters of
\* Role.reconstitute(props) yields exactly props, isSystem included, whatever
\* the caller does afterwards to the array it passed or to an array that
\* getPermissionIds returned.
C22_ReadBackIsProps ==
    pure.built => \A field \in DOMAIN pure.props : ReadsBack(field)

\* the permission ids of the entity stay those of props while the caller
\* changes the array it passed and the array it was handed
C22_ListIsIsolated ==
    pure.built => pure.heap[pure.heldRef] = pure.props.permissionIds

\* a system role was reconstituted, and the caller then changed both arrays
C22_Witness ==
    /\ pure.built
    /\ pure.props.isSystem
    /\ pure.op = "clearHanded"
    /\ pure.heap.given # pure.props.permissionIds
    /\ pure.props.permissionIds # <<>>

\* the role row of the user loaded by execution 1 is stored, and its name is
\* the name asked about, letter case ignored
HoldsTheRole ==
    /\ proc[1].local.user.roleId \in DOMAIN roles
    /\ EqualIgnoringCase(roles[proc[1].local.user.roleId].name, proc[1].input.roleName)

\* C23: for an existing user, userHasRole goes on to the role whether the user
\* is active or not, and when both reads succeed it returns Ok(true) exactly
\* when the role of the user is stored and has the name asked about, letter
\* case ignored; no stored role gives Ok(false), not an error.
C23_HasRoleIgnoresCaseAndActivity ==
    [][/\ Steps(1, "userHasRole", "findUser") /\ failure'[1] = NoError
          /\ proc[1].input.userId \in DOMAIN users
          => proc'[1].pc = "findRole"
       /\ Steps(1, "userHasRole", "findRole") /\ failure'[1] = NoError
          => /\ proc'[1].pc = "done"
             /\ proc'[1].result = Ok(HoldsTheRole)]_vars

\* a deactivated user was asked about in another letter case and has the role
C23_Witness ==
    /\ At(1, "userHasRole", "done")
    /\ proc[1].result = Ok(TRUE)
    /\ ~proc[1].local.user.isActive
    /\ proc[1].local.role.name # proc[1].input.roleName

\* the role of the user was deleted before it was read
C23_RoleGone ==
    /\ At(1, "userHasRole", "done")
    /\ proc[1].result = Ok(FALSE)
    /\ Len(proc[1].calls) = 2
    /\ "role" \notin DOMAIN proc[1].local

\* the step ends execution 1 with Ok and the list
ReturnsList(list) == proc'[1].pc = "done" /\ proc'[1].result = Ok(list)

\* what a bulk load of the ids returns from the stored permissions
BulkLoad(ids) == PermissionRepositoryImpl_findByIds(ids, "ok").value

\* C24: for an existing user, while no read fails, getUserPermissions returns
\* Ok with the empty list when the user is inactive or the role of the user is
\* not stored, and otherwise exactly the permissions that the bulk load of the
\* permission ids of the role returns.
C24_PermissionsOfTheRole ==
    [][/\ Steps(1, "getUserPermissions", "findUser") /\ failure'[1] = NoError
          /\ proc[1].input.userId \in DOMAIN users
          => IF users[proc[1].input.userId].isActive
                 THEN proc'[1].pc = "findRole"
             ELSE ReturnsList(<<>>)
       /\ Steps(1, "getUserPermissions", "findRole") /\ failure'[1] = NoError
          => IF proc[1].local.user.roleId \notin DOMAIN roles
                 THEN ReturnsList(<<>>)
             ELSE IF RoleRowOf(1).permissionIds = <<>>
                 THEN ReturnsList(BulkLoad(<<>>))
             ELSE proc'[1].pc = "findPermissions"
       /\ Steps(1, "getUserPermissions", "findPermissions") /\ failure'[1] = NoError
          => ReturnsList(BulkLoad(proc[1].local.role.permissionIds))]_vars

\* the role of an active user was deleted before getUserPermissions read it
C24_Witness ==
    /\ At(1, "getUserPermissions", "done")
    /\ proc[1].result = Ok(<<>>)
    /\ proc[1].local.user.isActive
    /\ Len(proc[1].calls) = 2
    /\ "role" \notin DOMAIN proc[1].local

\* the bulk load returned fewer permissions than the role has ids
C24_SomeIdsGone ==
    /\ At(1, "getUserPermissions", "done")
    /\ proc[1].result.ok
    /\ Len(proc[1].calls) = 3
    /\ Len(proc[1].result.value) < Len(proc[1].local.role.permissionIds)

ByIdOps ==
    {"getUserById", "updateUser", "deleteUser", "getRoleById", "updateRole",
     "deleteRole", "getPermissionById"}

\* the name of the id argument of a by-id use case
IdField(op) ==
    IF op \in {"getUserById", "updateUser", "deleteUser"} THEN "userId"
    ELSE IF op = "getPermissionById" THEN "permissionId"
    ELSE "roleId"

\* C25: a by-id use case (GetUserById, UpdateUser, DeleteUser, GetRoleById,
\* UpdateRole, DeleteRole, GetPermissionById) given a string that is not a
\* version 4 identifier has returned a ValidationError on its id field, and
\* has made no repository call.
C25_BadIdIsRefusedUnread ==
    proc[1].op \in ByIdOps /\ ~IsUuidV4(proc[1].input[IdField(proc[1].op)]) =>
        /\ proc[1].pc = "done"
        /\ ~proc[1].result.ok
        /\ proc[1].result.error.type = "ValidationError"
        /\ proc[1].result.error.field = IdField(proc[1].op)
        /\ proc[1].calls = <<>>

\* GetPermissionById was given a string that is no identifier, after a role
\* had been deleted
C25_Witness ==
    /\ At(1, "getPermissionById", "done")
    /\ proc[1].input.permissionId \in BadIds
    /\ ~proc[1].result.ok
    /\ "r-ops" \notin DOMAIN roles

\* execution p of UpdateUser persists the user it holds
Persists(p) == Steps(p, "updateUser", "update") /\ proc'[p].result.ok

\* the stored user that a login with the normalized email finds is inactive
LoginFindsInactive(p) ==
    \E id \in DOMAIN users :
        users[id].email = proc[p].local.email /\ ~users[id].isActive

\* the step ends execution p with the error type, or with the failure of the
\* read itself
Refused(p, type) ==
    /\ proc'[p].pc = "done"
    /\ ~proc'[p].result.ok
    /\ \/ proc'[p].result.error.type = type
       \/ proc'[p].result.error = failure'[p] /\ failure'[p].type = "DatabaseError"

\* C26: the stored isActive of a user changes only when an UpdateUser persists
\* it, and an UpdateUser asked for isActive = false that succeeds stores false;
\* while false is stored, a LoginUser that reads the user fails with
\* UnauthorizedError and makes no password check, and a userHasPermission that
\* reads the user returns Ok(false), the failure of the read itself apart.
C26_DeactivationHolds ==
    [][/\ \A id \in DOMAIN users :
             users'[id].isActive # users[id].isActive =>
                 \E p \in Procs : /\ Persists(p)
                                  /\ proc[p].local.user.id = id
                                  /\ users'[id].isActive = proc[p].local.user.isActive
       /\ \A p \in Procs :
             Persists(p) /\ proc[p].input.in.isActive = "false" =>
                 ~users'[proc[p].input.userId].isActive
       /\ Steps(1, "loginUser", "findByEmail") /\ LoginFindsInactive(1) =>
             Refused(1, "UnauthorizedError")
       /\ (/\ Steps(1, "userHasPermission", "findUser")
           /\ proc[1].input.userId \in DOMAIN users
           /\ ~users[proc[1].input.userId].isActive) =>
             \/ proc'[1].pc = "done" /\ proc'[1].result = Ok(FALSE)
             \/ Refused(1, "DatabaseError")]_vars

\* a login with the right password was refused after the user was deactivated
C26_Witness ==
    /\ At(1, "loginUser", "done")
    /\ ~proc[1].result.ok
    /\ proc[1].result.error.type = "UnauthorizedError"
    /\ proc[1].calls = <<"userRepository.findByEmail">>
    /\ proc[1].input.password = PW_bob
    /\ "user" \in DOMAIN proc[1].local
    /\ ~users["u-bob"].isActive

\* execution p of a List use case has returned after Promise.all
Joined(p) == proc[p].op \in ListOps /\ proc[p].pc = "done" /\ proc[p].calls # <<>>

\* the two executions had the same request and the same two read outcomes
SameReads(p, q) ==
    /\ proc[p].op = proc[q].op
    /\ proc[p].input = proc[q].input
    /\ proc[p].local.rowsResult = proc[q].local.rowsResult
    /\ proc[p].local.countResult = proc[q].local.countResult

\* C27: a List use case returns only after both findAll and count have been
\* made, whichever came in first; two executions with the same request and the
\* same two read outcomes return the same result in either completion order;
\* and when both reads fail, the error of findAll is returned.
C27_OrderOfReadsIsImmaterial ==
    \A p \in Procs :
        Joined(p) =>
            /\ Len(proc[p].calls) = 2
            /\ {proc[p].calls[1], proc[p].calls[2]}
                   = {ListFindAllCall(proc[p].op), ListCountCall(proc[p].op)}
            /\ \A q \in Procs : Joined(q) /\ SameReads(p, q) =>
                                    proc[p].result = proc[q].result
            /\ ~proc[p].local.rowsResult.ok /\ ~proc[p].local.countResult.ok =>
                   proc[p].result = Fail(proc[p].local.rowsResult.error)

\* both reads failed in two executions, findAll first in one and count first in
\* the other
C27_Witness ==
    /\ Joined(1) /\ Joined(2)
    /\ SameReads(1, 2)
    /\ proc[1].calls[1] = ListFindAllCall(proc[1].op)
    /\ proc[2].calls[1] = ListCountCall(proc[2].op)
    /\ ~proc[1].local.rowsResult.ok
    /\ ~proc[1].local.countResult.ok

\* both reads succeeded in two executions that took them in opposite orders
C27_BothOrdersSucceed ==
    /\ Joined(1) /\ Joined(2)
    /\ SameReads(1, 2)
    /\ proc[1].calls # proc[2].calls
    /\ proc[1].result.ok

-----------------------------------------------------------------------------
(* Claims about the emails of the stored users, under SpecEmails *)

\* a stored user other than id holds the email, trimmed and in lowercase
HeldByAnother(email, id) ==
    \E other \in DOMAIN users \ {id} : Normalized(users[other].email) = Normalized(email)

UniqueEmails ==
    \A id \in DOMAIN users : ~HeldByAnother(users[id].email, id)

\* execution p calls userRepository.save or userRepository.update
Writes(p) ==
    \/ Steps(p, "createUser", "save")
    \/ Steps(p, "registerUser", "save")
    \/ Steps(p, "updateUser", "update")

\* C29: under executions of RegisterUser, CreateUser and UpdateUser one after
\* another, no two stored users have the same email after trimming and
\* lowercasing, and the use cases never hand the storage a user whose email
\* another stored user holds: the storage has no duplicate to reject.
C29_EmailsStayUnique ==
    [][/\ UniqueEmails => UniqueEmails'
       /\ \A p \in Procs :
             Writes(p) => ~HeldByAnother(proc[p].local.user.email, proc[p].local.user.id)]_vars

\* the email of a user was changed to one that nobody held, and a user was
\* registered
C29_Witness ==
    /\ At(1, "updateUser", "done")
    /\ proc[1].result.ok
    /\ users["u-bob"].email = <<"d", "@", "x", ".", "y">>
    /\ "u-new2" \in DOMAIN users
    /\ UniqueEmails

\* the step ends UpdateUser with a ConflictError on the email
EmailConflict(p) ==
    /\ Steps(p, "updateUser", "existsByEmail")
    /\ proc'[p].pc = "done"
    /\ ~proc'[p].result.ok
    /\ proc'[p].result.error.type = "ConflictError"

\* C30: UpdateUser returns a ConflictError on the email only when a stored
\* user other than the one updated holds the email asked for; the email the
\* user has, in any letter case or with spaces around it, gives no
\* ConflictError.
C30_ConflictOnlyWithAnotherUser ==
    [][\A p \in Procs :
          EmailConflict(p) =>
              HeldByAnother(proc[p].input.in.email, proc[p].input.userId)]_vars

\* UpdateUser was refused with a ConflictError for the email the user has,
\* written with a capital and a space before it
C30_Witness ==
    /\ At(1, "updateUser", "done")
    /\ ~proc[1].result.ok
    /\ proc[1].result.error.type = "ConflictError"
    /\ proc[1].input.in.email # users[proc[1].input.userId].email
    /\ Normalized(proc[1].input.in.email) = users[proc[1].input.userId].email

=============================================================================
